---------------------------- MODULE Spec2Model ----------------------------
(***************************************************************************)
(* A model of the Soroswap MCP server: the tool dispatcher                 *)
(* (src/src/mcp/server.ts), the swap service (src/src/core/swap-service.ts)*)
(* with its request validation, and the price cache of the price service   *)
(* (second half of src/src/core/wallet-service.ts).                        *)
(*                                                                         *)
(* Conventions.                                                            *)
(*  - A JavaScript value that may be undefined is a sequence of length at  *)
(*    most one: U is undefined, S(v) is the value v.                       *)
(*  - Amounts, balances and slippage percentages are counted in hundredths *)
(*    (0.1 is 10, 1.0 is 100, 10000 is 1000000).  Every number of the      *)
(*    model has at most 9 significant decimal digits, where parseFloat and *)
(*    Number.prototype.toString are exact, so a decimal string and the     *)
(*    number it denotes are the same integer.                              *)
(*  - A message is a sequence of string fragments; Mentions(m, f) is the   *)
(*    model of "the text m contains f".                                    *)
(***************************************************************************)
EXTENDS Integers, Sequences, FiniteSets, TLC

VARIABLES
    vreq,       \* validation harness: the SwapRequest handed to validateSwapRequest
    vres,       \* validation harness: what validateSwapRequest did with vreq
    priceCache, \* PriceService.priceCache, a Map in insertion order
    now,        \* Date.now()
    putLog,     \* cache harness: per key, the time of the last setCachedPrice of it
    putRun,     \* cache harness: keys put one after another since the cache was empty
    lastPut,    \* cache harness: the setCachedPrice that was the last operation, if it was
    lastGet,    \* cache harness: the getCachedPrice that was the last operation, if it was
    calls,      \* the tool calls in flight or answered, one per slot
    ledger,     \* the ledger oracle's account (Horizon)
    defaultAccountSecret, \* stellarConfig.defaultAccountSecret
    connectedWallets, \* WalletService.connectedWallets, per public key
    walletCall,     \* the connectWallet or refreshWallet in flight or ended
    lastDisconnect, \* the disconnectWallet that was the last wallet operation, if it was
    defaultAccountPublic, \* stellarConfig.defaultAccountPublic
    reads,          \* the resource reads in flight or ended, one per slot
    requestLog,     \* the request events logged for the calls and reads the slots hold
    process,        \* the node process: its environment and how far its startup got
    isRunning,      \* SoroswapMCPServer.isRunning
    control,        \* the start, stop and shutdown invocations in flight or ended, per slot
    lastStep        \* lifecycle harness: the last step of an invocation, and isRunning before it

vars ==
    <<vreq, vres, priceCache, now, putLog, putRun, lastPut, lastGet, calls, ledger,
      defaultAccountSecret, connectedWallets, walletCall, lastDisconnect,
      defaultAccountPublic, reads, requestLog, process, isRunning, control, lastStep>>

validateVars == <<vreq, vres>>
cacheVars == <<priceCache, now>>
cacheHarnessVars == <<putLog, putRun, lastPut, lastGet>>
serverVars == <<calls, ledger, defaultAccountSecret, defaultAccountPublic, reads, requestLog>>
walletVars == <<connectedWallets, walletCall, lastDisconnect>>
\* the variables of the components the tool calls and the harnesses leave alone
lifecycleVars == <<isRunning, control, lastStep>>
otherVars == <<walletVars, process, lifecycleVars>>
\* the variables the wallet service leaves alone, the ledger apart
nonWalletVars ==
    <<calls, defaultAccountSecret, defaultAccountPublic, reads, requestLog,
      validateVars, cacheVars, cacheHarnessVars, process, lifecycleVars>>

-----------------------------------------------------------------------------
(* JavaScript values *)

U == <<>>

S(v) == <<v>>

IsUndefined(x) == x = U

Val(x) == x[1]

Mentions(msg, fragment) == \E i \in 1..Len(msg) : msg[i] = fragment

RECURSIVE SeqToSet(_)
SeqToSet(s) == IF s = <<>> THEN {} ELSE {Head(s)} \cup SeqToSet(Tail(s))

-----------------------------------------------------------------------------
(* Configuration: the defaults of EnvSchema, in hundredths *)

minAmount == 10

maxAmount == 1000000

maxSlippage == 500

MinSlippage == 10

HighSlippage == 500

-----------------------------------------------------------------------------
(* Tokens: src/src/stellar/utils.ts *)

KNOWN_TOKENS == {"XLM", "USDC"}

ToUpperCase(s) ==
    CASE s = "xlm" -> "XLM"
      [] s = "usdc" -> "USDC"
      [] OTHER -> s

\* symbol.toUpperCase() in KNOWN_TOKENS; on undefined the property access throws
isSupportedTokenThrows(symbol) == IsUndefined(symbol)

isSupportedToken(symbol) == ToUpperCase(Val(symbol)) \in KNOWN_TOKENS

-----------------------------------------------------------------------------
(* Swap request validation: SwapService.validateSwapRequest *)

E_Required == "From token and to token are required"
E_SameToken == "Cannot swap the same token"
E_AmountPositive == "Amount must be greater than 0"
E_Slippage == "Slippage must be between 0.1% and maxSlippage%"
E_AmountMin == "Amount must be at least minAmount"
E_AmountMax == "Amount exceeds maximum limit of maxAmount"
E_UnsupportedFrom == "Unsupported from token"
E_UnsupportedTo == "Unsupported to token"
W_HighSlippage == "High slippage tolerance"
W_LargeAmount == "Large transaction amount detected"
TypeError == "Cannot read properties of undefined"

\* !x for a string that may be undefined
FalsyString(x) == IsUndefined(x) \/ Val(x) = ""

\* !x for a number that may be undefined
FalsyNumber(x) == IsUndefined(x) \/ Val(x) = 0

\* a relational comparison with undefined is false
Lt(x, n) == ~IsUndefined(x) /\ Val(x) < n

Gt(x, n) == ~IsUndefined(x) /\ Val(x) > n

Le(x, n) == ~IsUndefined(x) /\ Val(x) <= n

Push(cond, s, e) == IF cond THEN Append(s, e) ELSE s

\* lines 285-308: the checks that run before the first isSupportedToken call
errorsBeforeTokens(request) ==
    LET e1 == Push(FalsyString(request.fromToken) \/ FalsyString(request.toToken), <<>>, E_Required)
        e2 == Push(request.fromToken = request.toToken, e1, E_SameToken)
        e3 == Push(FalsyNumber(request.amount) \/ Le(request.amount, 0), e2, E_AmountPositive)
        e4 == Push(Lt(request.slippage, MinSlippage) \/ Gt(request.slippage, maxSlippage),
                   e3, E_Slippage)
        e5 == Push(Lt(request.amount, minAmount), e4, E_AmountMin)
        e6 == Push(Gt(request.amount, maxAmount), e5, E_AmountMax)
    IN e6

swapWarnings(request) ==
    LET w1 == Push(Gt(request.slippage, HighSlippage), <<>>, W_HighSlippage)
        w2 == Push(~IsUndefined(request.amount) /\ 2 * Val(request.amount) > maxAmount,
                   w1, W_LargeAmount)
    IN w2

validateSwapRequest(request) ==
    IF isSupportedTokenThrows(request.fromToken) \/ isSupportedTokenThrows(request.toToken)
    THEN [kind |-> "throw", message |-> <<TypeError>>]
    ELSE LET e6 == errorsBeforeTokens(request)
             e7 == Push(~isSupportedToken(request.fromToken), e6, E_UnsupportedFrom)
             e8 == Push(~isSupportedToken(request.toToken), e7, E_UnsupportedTo)
         IN [kind |-> "return",
             isValid |-> Len(e8) = 0,
             errors |-> e8,
             warnings |-> swapWarnings(request)]

-----------------------------------------------------------------------------
(* The validation harness: validateSwapRequest applied to one request *)

ValidateTokens == {U, S(""), S("XLM"), S("USDC"), S("xlm"), S("BTC")}

ValidateAmounts ==
    {U, S(-100), S(0), S(5), S(10), S(100), S(500000), S(500001), S(1000000), S(1000001)}

ValidateSlippages == {S(0), S(5), S(10), S(100), S(500), S(501)}

ValidateRequests ==
    [fromToken : ValidateTokens, toToken : ValidateTokens,
     amount : ValidateAmounts, slippage : ValidateSlippages]

Pending == [kind |-> "pending"]

Validate ==
    /\ vres = Pending
    /\ vres' = validateSwapRequest(vreq)
    /\ UNCHANGED <<vreq, cacheVars, cacheHarnessVars, serverVars, otherVars>>

-----------------------------------------------------------------------------
(* The price cache: PriceService *)

CACHE_TTL == 2

MAX_CACHE_SIZE == 3

MaxTime == 3

\* `${fromToken}-${toToken}` (line 419) and `single-${symbol}` (line 461): a
\* string built from fragments is the sequence of them, the empty string <<>>
pairCacheKey(fromToken, toToken) == <<fromToken, "-", toToken>>

singleCacheKey(symbol) == <<"single-", symbol>>

\* utils.formatTokenPair
formatTokenPair(fromToken, toToken) == <<ToUpperCase(fromToken), "/", ToUpperCase(toToken)>>

\* the TokenPrice fetchPriceFromAPI builds; price is fromPrice / toPrice, kept
\* as the pair of its terms
TokenPrice(symbol, fromPrice, toPrice) ==
    [symbol |-> symbol, price |-> <<fromPrice, toPrice>>, priceUsd |-> fromPrice]

RECURSIVE CacheIndex(_, _)
\* the position of key in the Map, 0 when it has none
CacheIndex(cache, key) ==
    IF cache = <<>> THEN 0
    ELSE IF cache[Len(cache)].key = key THEN Len(cache)
    ELSE CacheIndex(SubSeq(cache, 1, Len(cache) - 1), key)

CacheKeys(cache) == {cache[i].key : i \in 1..Len(cache)}

\* Map.delete(key)
CacheDelete(cache, key) == SelectSeq(cache, LAMBDA e : e.key # key)

\* Map.set(key, entry): a key already held keeps its position
CacheSet(cache, key, entry) ==
    LET i == CacheIndex(cache, key)
    IN IF i = 0 THEN Append(cache, entry) ELSE [cache EXCEPT ![i] = entry]

\* getCachedPrice without the expiry test of line 667
getCachedPrice_NoExpiry(cache, key, t) ==
    LET i == CacheIndex(cache, key)
    IN IF i = 0 THEN [value |-> U, cache |-> cache]
       ELSE [value |-> S(cache[i].price), cache |-> cache]

\* getCachedPrice answering a miss for an expired entry without line 668
getCachedPrice_KeepExpired(cache, key, t) ==
    LET i == CacheIndex(cache, key)
    IN IF i = 0 \/ t > cache[i].expiresAt THEN [value |-> U, cache |-> cache]
       ELSE [value |-> S(cache[i].price), cache |-> cache]

\* getCachedPrice of a least-recently-used cache: a hit moves the entry to the
\* end of the Map
getCachedPrice_Touch(cache, key, t) ==
    LET i == CacheIndex(cache, key)
    IN IF i = 0 THEN [value |-> U, cache |-> cache]
       ELSE IF t > cache[i].expiresAt
            THEN [value |-> U, cache |-> CacheDelete(cache, key)]
            ELSE [value |-> S(cache[i].price),
                  cache |-> Append(CacheDelete(cache, key), cache[i])]

\* getCachedPrice: the value returned and the Map afterwards
getCachedPrice(cache, key, t) ==
    LET i == CacheIndex(cache, key)
    IN IF i = 0 THEN [value |-> U, cache |-> cache]
       ELSE IF t > cache[i].expiresAt
            THEN [value |-> U, cache |-> CacheDelete(cache, key)]
            ELSE [value |-> S(cache[i].price), cache |-> cache]

\* setCachedPrice without the size limit of lines 680-686
setCachedPrice_NoEviction(cache, key, price, t) ==
    CacheSet(cache, key,
             [key |-> key, price |-> price, timestamp |-> t, expiresAt |-> t + CACHE_TTL])

setCachedPrice(cache, key, price, t) ==
    LET firstKey == cache[1].key
        room == IF Len(cache) >= MAX_CACHE_SIZE /\ firstKey # <<>>
                THEN CacheDelete(cache, firstKey)
                ELSE cache
        entry == [key |-> key, price |-> price, timestamp |-> t,
                  expiresAt |-> t + CACHE_TTL]
    IN CacheSet(room, key, entry)

clearCache == <<>>

\* cleanupExpiredCache removing an entry from the moment of its expiry on
cleanupExpiredCache_AtExpiry(cache, t) == SelectSeq(cache, LAMBDA e : ~(t >= e.expiresAt))

cleanupExpiredCache(cache, t) == SelectSeq(cache, LAMBDA e : ~(t > e.expiresAt))

-----------------------------------------------------------------------------
(* The cache harness: the cache operations applied in any order, under a   *)
(* clock that advances between them                                        *)

HarnessKeys ==
    {pairCacheKey("XLM", "USDC"), pairCacheKey("USDC", "XLM"),
     singleCacheKey("XLM"), singleCacheKey("USDC")}

HarnessPrices ==
    {TokenPrice(formatTokenPair("XLM", "USDC"), 1, 1),
     TokenPrice(formatTokenPair("XLM", "USDC"), 2, 1)}

NoRun == [valid |-> FALSE, keys |-> <<>>]

EmptyRun == [valid |-> TRUE, keys |-> <<>>]

\* the run of puts after an operation that removed entries without putting
RunAfterRemoval(before, after) ==
    IF after = <<>> THEN EmptyRun
    ELSE IF after = before THEN putRun
    ELSE NoRun

Put(key, price) ==
    /\ priceCache' = setCachedPrice(priceCache, key, price, now)
    /\ putLog' = [putLog EXCEPT ![key] = S(now)]
    /\ putRun' = IF putRun.valid /\ Len(putRun.keys) <= MAX_CACHE_SIZE
                 THEN [putRun EXCEPT !.keys = Append(@, key)]
                 ELSE NoRun
    /\ lastPut' = S([key |-> key, price |-> price])
    /\ lastGet' = U
    /\ UNCHANGED <<now, validateVars, serverVars, otherVars>>

Get(key) ==
    LET r == getCachedPrice(priceCache, key, now)
    IN /\ priceCache' = r.cache
       /\ putRun' = RunAfterRemoval(priceCache, r.cache)
       /\ lastPut' = U
       /\ lastGet' = IF r.value = U THEN U ELSE S([key |-> key, price |-> Val(r.value)])
       /\ UNCHANGED <<now, putLog, validateVars, serverVars, otherVars>>

Clear ==
    /\ priceCache' = clearCache
    /\ putRun' = EmptyRun
    /\ lastPut' = U
    /\ lastGet' = U
    /\ UNCHANGED <<now, putLog, validateVars, serverVars, otherVars>>

Sweep ==
    /\ priceCache' = cleanupExpiredCache(priceCache, now)
    /\ putRun' = RunAfterRemoval(priceCache, priceCache')
    /\ lastPut' = U
    /\ lastGet' = U
    /\ UNCHANGED <<now, putLog, validateVars, serverVars, otherVars>>

Tick ==
    /\ now < MaxTime
    /\ now' = now + 1
    /\ lastPut' = U
    /\ lastGet' = U
    /\ UNCHANGED <<priceCache, putLog, putRun, validateVars, serverVars, otherVars>>

-----------------------------------------------------------------------------
(* Completions: how a function call ends *)

Return(v) == [kind |-> "return", value |-> v]

Throw(m) == [kind |-> "throw", message |-> m]

\* the call is suspended on an oracle; it resumes at step pc
Await(pc) == [kind |-> "await", pc |-> pc]

-----------------------------------------------------------------------------
(* The oracles *)

\* secret keys Keypair.fromSecret accepts, and the public key of each
KeyOf == [s \in {"SA"} |-> "GA"]

\* the account GA as Horizon holds it; no other account exists
LedgerStates ==
    {[exists |-> FALSE, xlm |-> 0, usdc |-> U],
     [exists |-> TRUE, xlm |-> 15000, usdc |-> U],
     [exists |-> TRUE, xlm |-> 15000, usdc |-> S(15000)],
     [exists |-> TRUE, xlm |-> 5000, usdc |-> S(0)]}

\* a second account, which Horizon holds throughout
AccountGB == [exists |-> TRUE, xlm |-> 200, usdc |-> S(0)]

\* a decimal string of the quote API, as <<whole part, hundredths>>:
\* "19.5" is <<19, 50>>
Decimal(whole, hundredths) == <<whole, hundredths>>

\* parseFloat of a decimal string, in hundredths
parseFloat(text) == text[1] * 100 + text[2]

\* what the quote API answers to GET /quote
Quotes ==
    {[fromAmount |-> Decimal(100, 0), toAmount |-> Decimal(20, 0),
      minimumReceived |-> Decimal(19, 50), fee |-> Decimal(0, 10)]}

\* what the price API answers to GET /prices/:symbol (priceUsd), U for a 404
OraclePrices == {U, S(1), S(2)}

M_Network == "Network Error"
M_InvalidSecret == "invalid encoded string"

\* Horizon.Server.loadAccount(publicKey): the account record, or a failure
\* (404 when the account does not exist, a network error when up is FALSE)
loadAccount(publicKey, up) ==
    IF ~up THEN Throw(<<M_Network>>)
    ELSE IF publicKey = S("GA") /\ ledger.exists THEN Return(ledger)
    ELSE IF publicKey = S("GB") THEN Return(AccountGB)
    ELSE Throw(<<"Not Found">>)

\* StellarClient.accountExists: false on a 404, rethrows anything else
accountExists(publicKey, up) ==
    LET a == loadAccount(publicKey, up)
    IN IF a.kind = "return" THEN Return(TRUE)
       ELSE IF up THEN Return(FALSE)
       ELSE a

M_LoadAccount == "Failed to load account:"

\* StellarClient.getBalances via getAccount: every failure is rethrown wrapped
getBalances(publicKey, up) ==
    LET a == loadAccount(publicKey, up)
    IN IF a.kind = "return" THEN a ELSE Throw(<<M_LoadAccount>> \o a.message)

\* utils.hasTrustline once getBalances has answered; a failure counts as none
hasTrustlineReply(publicKey, symbol, up) ==
    LET b == getBalances(publicKey, up)
    IN IF b.kind = "throw" THEN FALSE
       ELSE IF ToUpperCase(symbol) \notin KNOWN_TOKENS THEN FALSE
       ELSE b.value.usdc # U

\* hasTrustline answers for XLM without asking the ledger
hasTrustlineNeedsLedger(symbol) == ToUpperCase(symbol) # "XLM"

\* utils.getTokenBalanceInfo then WalletService.getTokenBalance: the balance
\* string, '0' when the entry is missing or the ledger failed
getTokenBalance(publicKey, symbol, up) ==
    LET b == getBalances(publicKey, up)
    IN IF b.kind = "throw" THEN 0
       ELSE IF ToUpperCase(symbol) = "XLM" THEN b.value.xlm
       ELSE IF ToUpperCase(symbol) \notin KNOWN_TOKENS THEN 0
       ELSE IF b.value.usdc = U THEN 0
       ELSE Val(b.value.usdc)

M_InvalidBalance == "Invalid balance:"

\* utils.parseBalance: parseFloat, refusing NaN and negatives
parseBalance(balance) ==
    IF balance < 0 THEN Throw(<<M_InvalidBalance>>) ELSE Return(balance)

\* compareBalances with the comparison reversed
compareBalances_Reversed(a, b) == parseBalance(a).value <= parseBalance(b).value

\* utils.compareBalances: a >= b (both operands are non-negative where it is called)
compareBalances(a, b) == parseBalance(a).value >= parseBalance(b).value

-----------------------------------------------------------------------------
(* SwapService.executeSwap *)

M_ValidationFailed == "Swap validation failed:"
M_NoSecret == "No account secret provided for swap execution"
M_AccountMissing == "Account does not exist:"
M_MissingTrustline == "Missing trustline for"
M_Insufficient == "Insufficient balance for"
M_EstimationFailed == "Swap estimation failed:"
MockTxHash == "mock_tx"

NoObs == [exists |-> U, fromTrustline |-> U, toTrustline |-> U, balance |-> U, quote |-> U]

\* the catch block of executeSwap with the failure result replaced by a rethrow
executeSwapCatch_Rethrow(request, message) == Throw(message)

\* the catch block of executeSwap returning a failure result without the message
executeSwapCatch_NoError(request, message) ==
    Return([success |-> FALSE,
            transactionHash |-> U,
            fromToken |-> request.fromToken,
            toToken |-> request.toToken,
            fromAmount |-> request.amount,
            toAmount |-> 0,
            actualReceived |-> U,
            fee |-> 0,
            error |-> U])

\* lines 144-163: the catch block of executeSwap
executeSwapCatch(request, message) ==
    Return([success |-> FALSE,
            transactionHash |-> U,
            fromToken |-> request.fromToken,
            toToken |-> request.toToken,
            fromAmount |-> request.amount,
            toAmount |-> 0,
            actualReceived |-> U,
            fee |-> 0,
            error |-> S(message)])

\* executeDirectSwap reporting what the quote promised at least, not the estimate
executeDirectSwap_MinimumReceived(request, estimate) ==
    Return([success |-> TRUE,
            transactionHash |-> S(MockTxHash),
            fromToken |-> request.fromToken,
            toToken |-> request.toToken,
            fromAmount |-> request.amount,
            toAmount |-> estimate.minimumReceived,
            actualReceived |-> S(estimate.minimumReceived),
            fee |-> estimate.fee,
            error |-> U])

\* lines 453-463: the result of executeDirectSwap
executeDirectSwap(request, estimate) ==
    Return([success |-> TRUE,
            transactionHash |-> S(MockTxHash),
            fromToken |-> request.fromToken,
            toToken |-> request.toToken,
            fromAmount |-> request.amount,
            toAmount |-> estimate.toAmount,
            actualReceived |-> S(estimate.toAmount),
            fee |-> estimate.fee,
            error |-> U])

\* lines 115-121: the secret to sign with and its public key
resolveKeypair(request) ==
    LET secret == IF FalsyString(request.accountSecret)
                  THEN defaultAccountSecret
                  ELSE request.accountSecret
    IN IF FalsyString(secret) THEN Throw(<<M_NoSecret>>)
       ELSE IF Val(secret) \notin DOMAIN KeyOf THEN Throw(<<M_InvalidSecret>>)
       ELSE Return(S(KeyOf[Val(secret)]))

\* the first pre-check at or after step pc that asks the ledger
NextPreCheck(pc, request) ==
    CASE pc = "fromTrustline" /\ hasTrustlineNeedsLedger(Val(request.fromToken)) -> pc
      [] pc = "fromTrustline" /\ hasTrustlineNeedsLedger(Val(request.toToken)) -> "toTrustline"
      [] pc = "fromTrustline" -> "balance"
      [] pc = "toTrustline" /\ hasTrustlineNeedsLedger(Val(request.toToken)) -> pc
      [] pc = "toTrustline" -> "balance"
      [] OTHER -> pc

\* lines 100-124: executeSwap up to its first ledger call
executeSwapStart(request) ==
    LET validation == validateSwapRequest(request)
        keypair == resolveKeypair(request)
    IN IF validation.kind = "throw" THEN validation
       ELSE IF ~validation.isValid
            THEN Throw(<<M_ValidationFailed>> \o validation.errors)
       ELSE IF keypair.kind = "throw" THEN keypair
       ELSE Await("accountExists")

\* lines 345-348 of validateAccountForSwap
afterAccountExists(request, reply) ==
    IF reply.kind = "throw" THEN reply
    ELSE IF ~reply.value THEN Throw(<<M_AccountMissing>>)
    ELSE Await(NextPreCheck("fromTrustline", request))

\* lines 351-354
afterFromTrustline(request, fromTrustline) ==
    IF ~fromTrustline /\ Val(request.fromToken) # "XLM"
    THEN Throw(<<M_MissingTrustline, Val(request.fromToken)>>)
    ELSE Await(NextPreCheck("toTrustline", request))

\* lines 356-359
afterToTrustline(request, toTrustline) ==
    IF ~toTrustline /\ Val(request.toToken) # "XLM"
    THEN Throw(<<M_MissingTrustline, Val(request.toToken)>>)
    ELSE Await("balance")

RECURSIVE AmountsAwaitingQuote(_)
\* the amounts of the calls in slots that passed the balance check and have
\* not executed yet
AmountsAwaitingQuote(slots) ==
    IF slots = {} THEN 0
    ELSE LET c == CHOOSE x \in slots : TRUE
         IN (IF calls[c].pc = "quote" THEN Val(Val(calls[c].request).amount) ELSE 0)
            + AmountsAwaitingQuote(slots \ {c})

\* the balance check of a service that sets aside what the swaps in flight
\* are about to spend
afterBalance_Reserving(request, balance) ==
    IF balance - AmountsAwaitingQuote(DOMAIN calls) < Val(request.amount)
    THEN Throw(<<M_Insufficient, Val(request.fromToken)>>)
    ELSE Await("quote")

\* lines 362-370
afterBalance(request, balance) ==
    IF ~compareBalances(balance, Val(request.amount))
    THEN Throw(<<M_Insufficient, Val(request.fromToken)>>)
    ELSE Await("quote")

\* SwapService.estimateSwap from the answer of the quote oracle on
estimateAfterQuote(request, reply) ==
    IF reply.kind = "throw"
    THEN Throw(<<M_EstimationFailed>> \o reply.message)
    ELSE Return([fromAmount |-> parseFloat(reply.value.fromAmount),
                 toAmount |-> parseFloat(reply.value.toAmount),
                 minimumReceived |-> parseFloat(reply.value.minimumReceived),
                 fee |-> parseFloat(reply.value.fee)])

\* lines 127-143: estimateSwap, performSwap, return
afterQuote(request, reply) ==
    LET estimate == estimateAfterQuote(request, reply)
    IN IF estimate.kind = "throw" THEN estimate
       ELSE executeDirectSwap(request, estimate.value)

\* executeSwap as a whole: what came out of its try block, through its catch
executeSwapEnd(request, completion) ==
    IF completion.kind = "throw"
    THEN executeSwapCatch(request, completion.message)
    ELSE completion

-----------------------------------------------------------------------------
(* The tool handlers of SoroswapMCPServer *)

M_UnknownTool == "Unknown tool:"
M_InvalidPair == "Invalid token pair format:"
M_UnsupportedPair == "Unsupported token pair:"
DefaultSlippage == 100
DefaultLimit == 10
MaxHistoryLimit == 100

KnownTools == {"swap_tokens", "get_price", "get_balance", "get_history", "estimate_swap"}

\* the object a handler returns from its catch block
ErrorBody(message) == [error |-> S(message)]

\* lines 366-372 and 506-511: slippage: args.slippage || 1.0
swapRequestOf(args) ==
    [fromToken |-> args.fromToken,
     toToken |-> args.toToken,
     amount |-> args.amount,
     slippage |-> IF FalsyNumber(args.slippage) THEN S(DefaultSlippage) ELSE args.slippage,
     accountSecret |-> args.accountSecret]

\* lines 376-397: handleSwapTokens from the end of executeSwap on
handleSwapTokensEnd(swap) ==
    IF swap.kind = "throw"
    THEN Return([success |-> S(FALSE), transactionHash |-> U, fromAmount |-> U,
                 toAmount |-> U, actualReceived |-> U, fee |-> U,
                 error |-> S(swap.message)])
    ELSE Return([success |-> S(swap.value.success),
                 transactionHash |-> swap.value.transactionHash,
                 fromAmount |-> swap.value.fromAmount,
                 toAmount |-> S(swap.value.toAmount),
                 actualReceived |-> swap.value.actualReceived,
                 fee |-> S(swap.value.fee),
                 error |-> swap.value.error])

\* a handler's catch block reads args.<field>: with args undefined it throws again
handlerCatch(args, message) ==
    IF IsUndefined(args) THEN Throw(<<TypeError>>) ELSE Return(ErrorBody(message))

\* the default case of callTool falling through without a throw
callToolDefault_FallThrough(name) == Return([error |-> U])

\* lines 329-330: the default case of callTool
callToolDefault(name) == Throw(<<M_UnknownTool, name>>)

\* the catch block of the tool-call handler rethrowing, as the resource handler does
CallToolEnvelope_Rethrow(completion) ==
    IF completion.kind = "return"
    THEN [outcome |-> "returned",
          response |-> S([isError |-> FALSE, json |-> S(completion.value), text |-> U])]
    ELSE [outcome |-> "threw", response |-> U]

\* lines 76-101: what the tool-call handler hands back for what callTool did
CallToolEnvelope(completion) ==
    IF completion.kind = "return"
    THEN [outcome |-> "returned",
          response |-> S([isError |-> FALSE, json |-> S(completion.value), text |-> U])]
    ELSE [outcome |-> "returned",
          response |-> S([isError |-> TRUE, json |-> U,
                          text |-> S(<<"Error:">> \o completion.message)])]

\* String.split('/') on the pairs of the model
SplitSlash(pair) ==
    CASE pair = "XLM/USDC" -> <<"XLM", "USDC">>
      [] pair = "USDC/XLM" -> <<"USDC", "XLM">>
      [] pair = "xlm/usdc" -> <<"xlm", "usdc">>
      [] pair = "BTC/USDC" -> <<"BTC", "USDC">>
      [] OTHER -> <<pair>>

\* utils.parseTokenPair
parseTokenPair(pair) ==
    IF IsUndefined(pair) THEN Throw(<<TypeError>>)
    ELSE LET parts == SplitSlash(Val(pair))
         IN IF Len(parts) < 2 \/ parts[1] = "" \/ parts[2] = ""
            THEN Throw(<<M_InvalidPair>>)
            ELSE Return([fromToken |-> ToUpperCase(parts[1]),
                         toToken |-> ToUpperCase(parts[2])])

BaseToken == "USDC"

\* fetchPriceFromAPI: the next price it has to ask for, from step pc on
NextPriceStep(pc, pair) ==
    CASE pc = "priceFrom" /\ pair.fromToken # BaseToken -> pc
      [] pc = "priceFrom" /\ pair.toToken # BaseToken -> "priceTo"
      [] pc = "priceFrom" -> "priceStore"
      [] pc = "priceTo" /\ pair.toToken # BaseToken -> pc
      [] OTHER -> "priceStore"

\* lines 405-425 of getTokenPairPrice: up to the cache lookup
getTokenPairPriceStart(tokenPair, cache, t) ==
    LET parsed == parseTokenPair(tokenPair)
        pair == parsed.value
        cached == getCachedPrice(cache, pairCacheKey(pair.fromToken, pair.toToken), t)
    IN IF parsed.kind = "throw" THEN [completion |-> parsed, cache |-> cache]
       ELSE IF ~isSupportedToken(S(pair.fromToken)) \/ ~isSupportedToken(S(pair.toToken))
            THEN [completion |-> Throw(<<M_UnsupportedPair>>), cache |-> cache]
       ELSE IF ~IsUndefined(cached.value)
            THEN [completion |-> Return(Val(cached.value)), cache |-> cached.cache]
       ELSE [completion |-> Await(NextPriceStep("priceFrom", pair)), cache |-> cached.cache]

\* lines 412-420: the object handleGetPrice returns
PriceBody(price) == [error |-> U, price |-> S(price)]

-----------------------------------------------------------------------------
(* Tool calls: the CallToolRequestSchema handler, one step per oracle reply *)

\* generateRequestId (utils/logger.ts line 239-241): a timestamp and nine random
\* characters; two calls may draw the same
RequestIds == {"req_a", "req_b"}

NoRequestId == ""

CallSlot(c) == <<"call", c>>

ReadSlot(r) == <<"read", r>>

\* utils/logger.ts lines 147-153 and 158-169: the events of a request, with
\* the slot whose handler logged them
requestStart(slot, method, requestId) ==
    [slot |-> slot, message |-> "Request started", requestId |-> requestId,
     method |-> method]

requestEnd(slot, method, requestId, success) ==
    [slot |-> slot,
     message |-> IF success THEN "Request completed" ELSE "Request failed",
     requestId |-> requestId, method |-> method]

\* the events of slot in log, in order
EventsOf(log, slot) == SelectSeq(log, LAMBDA e : e.slot = slot)

\* the log without the events of slot
Unlogged(log, slot) == SelectSeq(log, LAMBDA e : e.slot # slot)

\* the const requestId of the handler running in slot: what its requestStart logged
requestIdOf(log, slot) == EventsOf(log, slot)[1].requestId

\* Logged with a requestEnd that does not take the handler's const requestId
Logged_EndIdLost(log, slot, method, before, after, requestId, success) ==
    LET started == IF before.pc = "idle" /\ after.pc # "idle"
                   THEN Append(log, requestStart(slot, method, requestId))
                   ELSE log
    IN IF after.pc = "done" /\ before.pc # "done"
       THEN Append(started, requestEnd(slot, method, requestId, success))
       ELSE started

\* the log after a step of the handler in slot that took it from before to
\* after: requestStart when it began, requestEnd when it ended
Logged(log, slot, method, before, after, requestId, success) ==
    LET started == IF before.pc = "idle" /\ after.pc # "idle"
                   THEN Append(log, requestStart(slot, method, requestId))
                   ELSE log
    IN IF after.pc = "done" /\ before.pc # "done"
       THEN Append(started, requestEnd(slot, method, requestIdOf(started, slot), success))
       ELSE started

IdleCall ==
    [pc |-> "idle", name |-> "", args |-> U, request |-> U, obs |-> NoObs,
     fromPrice |-> 1, limit |-> U, oracleFailed |-> FALSE, trace |-> <<>>,
     swap |-> U, outcome |-> "none", response |-> U]

\* slot c holds no call
Free(c) == calls[c].pc = "idle"

\* the handler begins: a fresh call in slot c
Begin(c, name, args) == [IdleCall EXCEPT !.name = name, !.args = args]

\* callTool has ended with completion: the handler answers
Answer(call, completion) ==
    LET e == CallToolEnvelope(completion)
    IN [call EXCEPT !.pc = "done", !.outcome = e.outcome, !.response = e.response]

\* executeSwap has reached completion (of its try block) or waits on an oracle
SwapProceed(call, completion) ==
    IF completion.kind = "await" THEN [call EXCEPT !.pc = completion.pc]
    ELSE LET swap == executeSwapEnd(Val(call.request), completion)
         IN Answer([call EXCEPT !.swap = S(swap)], handleSwapTokensEnd(swap))

Traced(call, op) == [call EXCEPT !.trace = Append(@, op)]

Failed(call, up) == [call EXCEPT !.oracleFailed = @ \/ ~up]

\* server.ts lines 74, 78 and 90: the events of the tool call in slot c
LogCall(c, requestId) ==
    requestLog' = Logged(requestLog, CallSlot(c), "call_tool", calls[c], calls'[c],
                         requestId,
                         calls'[c].response # U /\ ~Val(calls'[c].response).isError)

SwapArgs ==
    {U} \cup
    {S(a) : a \in [fromToken : {U, S("XLM"), S("USDC")},
                   toToken : {S("XLM"), S("USDC"), S("BTC")},
                   amount : {S(5), S(10000), S(20000)},
                   slippage : {U, S(0), S(100), S(600)},
                   accountSecret : {U, S("SA"), S("bad")}]}

\* swap_tokens: handleSwapTokens and executeSwap up to the first ledger call
CallSwapTokens(c, args) ==
    /\ Free(c)
    /\ LET call == Begin(c, "swap_tokens", args)
       IN calls' = [calls EXCEPT ![c] =
            IF IsUndefined(args)
            THEN Answer(call, handleSwapTokensEnd(Throw(<<TypeError>>)))
            ELSE LET request == swapRequestOf(Val(args))
                 IN SwapProceed(Traced([call EXCEPT !.request = S(request)],
                                       "swapService.executeSwap"),
                                executeSwapStart(request))]
    /\ UNCHANGED <<ledger, defaultAccountSecret, defaultAccountPublic, reads, validateVars, cacheVars, cacheHarnessVars, otherVars>>
    /\ \E requestId \in RequestIds : LogCall(c, requestId)

\* the public key executeSwap derived for the call
PublicKeyOf(call) == resolveKeypair(Val(call.request)).value

SwapAccountExists(c, up) ==
    /\ calls[c].pc = "accountExists"
    /\ LET call == Failed(Traced(calls[c], "ledger.accountExists"), up)
           reply == accountExists(PublicKeyOf(call), up)
           seen == IF reply.kind = "return" THEN S(reply.value) ELSE U
       IN calls' = [calls EXCEPT ![c] =
            SwapProceed([call EXCEPT !.obs.exists = seen],
                        afterAccountExists(Val(call.request), reply))]
    /\ UNCHANGED <<ledger, defaultAccountSecret, defaultAccountPublic, reads, validateVars, cacheVars, cacheHarnessVars, otherVars>>
    /\ LogCall(c, NoRequestId)

SwapFromTrustline(c, up) ==
    /\ calls[c].pc = "fromTrustline"
    /\ LET call == Failed(Traced(calls[c], "ledger.getBalances"), up)
           request == Val(call.request)
           held == hasTrustlineReply(PublicKeyOf(call), Val(request.fromToken), up)
       IN calls' = [calls EXCEPT ![c] =
            SwapProceed([call EXCEPT !.obs.fromTrustline = S(held)],
                        afterFromTrustline(request, held))]
    /\ UNCHANGED <<ledger, defaultAccountSecret, defaultAccountPublic, reads, validateVars, cacheVars, cacheHarnessVars, otherVars>>
    /\ LogCall(c, NoRequestId)

SwapToTrustline(c, up) ==
    /\ calls[c].pc = "toTrustline"
    /\ LET call == Failed(Traced(calls[c], "ledger.getBalances"), up)
           request == Val(call.request)
           held == hasTrustlineReply(PublicKeyOf(call), Val(request.toToken), up)
       IN calls' = [calls EXCEPT ![c] =
            SwapProceed([call EXCEPT !.obs.toTrustline = S(held)],
                        afterToTrustline(request, held))]
    /\ UNCHANGED <<ledger, defaultAccountSecret, defaultAccountPublic, reads, validateVars, cacheVars, cacheHarnessVars, otherVars>>
    /\ LogCall(c, NoRequestId)

SwapBalance(c, up) ==
    /\ calls[c].pc = "balance"
    /\ LET call == Failed(Traced(calls[c], "ledger.getBalances"), up)
           request == Val(call.request)
           balance == getTokenBalance(PublicKeyOf(call), Val(request.fromToken), up)
       IN calls' = [calls EXCEPT ![c] =
            SwapProceed([call EXCEPT !.obs.balance = S(balance)],
                        afterBalance(request, balance))]
    /\ UNCHANGED <<ledger, defaultAccountSecret, defaultAccountPublic, reads, validateVars, cacheVars, cacheHarnessVars, otherVars>>
    /\ LogCall(c, NoRequestId)

\* the quote API answers: reply is a quote, or U when the request failed
QuoteReply(reply) == IF IsUndefined(reply) THEN Throw(<<M_Network>>) ELSE Return(Val(reply))

SwapQuote(c, reply) ==
    /\ calls[c].pc = "quote"
    /\ LET call == Failed(Traced(calls[c], "quote.getQuote"), ~IsUndefined(reply))
       IN calls' = [calls EXCEPT ![c] =
            SwapProceed([call EXCEPT !.obs.quote = reply],
                        afterQuote(Val(call.request), QuoteReply(reply)))]
    /\ UNCHANGED <<ledger, defaultAccountSecret, defaultAccountPublic, reads, validateVars, cacheVars, cacheHarnessVars, otherVars>>
    /\ LogCall(c, NoRequestId)

\* get_price --------------------------------------------------------------

PriceArgs ==
    {U, S([tokenPair |-> U]), S([tokenPair |-> S("XLM/USDC")]),
     S([tokenPair |-> S("USDC/XLM")]), S([tokenPair |-> S("XLM")]),
     S([tokenPair |-> S("BTC/USDC")])}

\* lines 409-428: handleGetPrice from the end of getTokenPairPrice on
handleGetPriceEnd(args, completion) ==
    IF completion.kind = "throw" THEN handlerCatch(args, completion.message)
    ELSE Return(PriceBody(completion.value))

\* the price is cached only when the cache holds no live entry of the pair:
\* the result of the call that stored first stays
priceStore_KeepFirst(call, cache, toPrice, t) ==
    LET pair == Val(call.request)
        key == pairCacheKey(pair.fromToken, pair.toToken)
        price == TokenPrice(formatTokenPair(pair.fromToken, pair.toToken),
                            call.fromPrice, toPrice)
    IN [completion |-> Return(price),
        cache |-> IF getCachedPrice(cache, key, t).value # U THEN cache
                  ELSE setCachedPrice(cache, key, price, t)]

\* lines 428-439 and 728-739: the price fetchPriceFromAPI builds is cached
\* and returned
priceStore(call, cache, toPrice, t) ==
    LET pair == Val(call.request)
        price == TokenPrice(formatTokenPair(pair.fromToken, pair.toToken),
                            call.fromPrice, toPrice)
    IN [completion |-> Return(price),
        cache |-> setCachedPrice(cache, pairCacheKey(pair.fromToken, pair.toToken),
                                 price, t)]

\* getTokenPairPrice goes on from step: to the next price request or to its end
PriceProceed(call, step, cache, toPrice, t) ==
    IF step.kind = "await" /\ step.pc # "priceStore"
    THEN [call |-> [call EXCEPT !.pc = step.pc], cache |-> cache]
    ELSE LET end == IF step.kind = "await" THEN priceStore(call, cache, toPrice, t)
                    ELSE [completion |-> step, cache |-> cache]
         IN [call |-> Answer(call, handleGetPriceEnd(call.args, end.completion)),
             cache |-> end.cache]

CallGetPrice(c, args) ==
    /\ Free(c)
    /\ LET call == Begin(c, "get_price", args)
           start == getTokenPairPriceStart(Val(args).tokenPair, priceCache, now)
           parsed == parseTokenPair(Val(args).tokenPair)
           began == Traced([call EXCEPT !.request =
                              IF parsed.kind = "return" THEN S(parsed.value) ELSE U],
                           "priceService.getTokenPairPrice")
           next == PriceProceed(began, start.completion, start.cache, 1, now)
       IN IF IsUndefined(args)
          THEN /\ calls' = [calls EXCEPT ![c] =
                              Answer(call, handlerCatch(args, <<TypeError>>))]
               /\ priceCache' = priceCache
          ELSE /\ calls' = [calls EXCEPT ![c] = next.call]
               /\ priceCache' = next.cache
    /\ UNCHANGED <<now, ledger, defaultAccountSecret, defaultAccountPublic, reads, validateVars, cacheHarnessVars, otherVars>>
    /\ \E requestId \in RequestIds : LogCall(c, requestId)

\* SoroswapClient.getTokenPrice has answered: reply is priceUsd, U for a 404;
\* up is FALSE when the request failed otherwise
tokenPriceReply(reply, up) == IF up THEN Return(reply) ELSE Throw(<<M_Network>>)

\* lines 711-716: the reply to the price request for fromToken
PriceFrom(c, reply, up) ==
    /\ calls[c].pc = "priceFrom"
    /\ LET call == Failed(Traced(calls[c], "price.getTokenPrice"), up)
           got == tokenPriceReply(reply, up)
           priced == IF up /\ ~IsUndefined(reply)
                     THEN [call EXCEPT !.fromPrice = Val(reply)] ELSE call
           step == IF got.kind = "throw" THEN got
                   ELSE Await(NextPriceStep("priceTo", Val(call.request)))
           next == PriceProceed(priced, step, priceCache, 1, now)
       IN /\ calls' = [calls EXCEPT ![c] = next.call]
          /\ priceCache' = next.cache
    /\ UNCHANGED <<now, ledger, defaultAccountSecret, defaultAccountPublic, reads, validateVars, cacheHarnessVars, otherVars>>
    /\ LogCall(c, NoRequestId)

\* lines 719-724: the reply to the price request for toToken
PriceTo(c, reply, up) ==
    /\ calls[c].pc = "priceTo"
    /\ LET call == Failed(Traced(calls[c], "price.getTokenPrice"), up)
           got == tokenPriceReply(reply, up)
           toPrice == IF up /\ ~IsUndefined(reply) THEN Val(reply) ELSE 1
           step == IF got.kind = "throw" THEN got ELSE Await("priceStore")
           next == PriceProceed(call, step, priceCache, toPrice, now)
       IN /\ calls' = [calls EXCEPT ![c] = next.call]
          /\ priceCache' = next.cache
    /\ UNCHANGED <<now, ledger, defaultAccountSecret, defaultAccountPublic, reads, validateVars, cacheHarnessVars, otherVars>>
    /\ LogCall(c, NoRequestId)

\* get_balance ------------------------------------------------------------

BalanceArgs ==
    {U} \cup {S(a) : a \in [account : {"GA", "GX"},
                            token : {U, S(""), S("XLM"), S("USDC"), S("BTC")}]}

\* lines 437-443: the object handleGetBalance returns for one token
TokenBalanceBody(balance) == [error |-> U, balance |-> S(balance)]

\* lines 446-458: the object handleGetBalance returns for all balances
BalancesBody(account) == [error |-> U, balances |-> S([xlm |-> account.xlm, usdc |-> account.usdc])]

\* lines 435-467: handleGetBalance from the reply of the ledger on
handleGetBalanceEnd(args, up) ==
    LET all == getBalances(S(args.account), up)
    IN IF ~FalsyString(args.token)
       THEN Return(TokenBalanceBody(getTokenBalance(S(args.account), Val(args.token), up)))
       ELSE IF all.kind = "throw" THEN Return(ErrorBody(all.message))
       ELSE Return(BalancesBody(all.value))

CallGetBalance(c, args) ==
    /\ Free(c)
    /\ LET call == Begin(c, "get_balance", args)
       IN calls' = [calls EXCEPT ![c] =
            IF IsUndefined(args) THEN Answer(call, handlerCatch(args, <<TypeError>>))
            ELSE [Traced(call, IF ~FalsyString(Val(args).token)
                               THEN "walletService.getTokenBalance"
                               ELSE "walletService.getBalances")
                    EXCEPT !.pc = "balances"]]
    /\ UNCHANGED <<ledger, defaultAccountSecret, defaultAccountPublic, reads, validateVars, cacheVars, cacheHarnessVars, otherVars>>
    /\ \E requestId \in RequestIds : LogCall(c, requestId)

BalanceReply(c, up) ==
    /\ calls[c].pc = "balances"
    /\ LET call == Failed(Traced(calls[c], "ledger.getBalances"), up)
       IN calls' = [calls EXCEPT ![c] =
            Answer(call, handleGetBalanceEnd(Val(call.args), up))]
    /\ UNCHANGED <<ledger, defaultAccountSecret, defaultAccountPublic, reads, validateVars, cacheVars, cacheHarnessVars, otherVars>>
    /\ LogCall(c, NoRequestId)

\* get_history ------------------------------------------------------------

HistoryArgs ==
    {U} \cup {S(a) : a \in [account : {"GA", "GX"}, limit : {U, S(0), S(5), S(500)}]}

\* line 474: const limit = args.limit || 10
historyLimit(args) == IF FalsyNumber(args.limit) THEN DefaultLimit ELSE Val(args.limit)

\* Horizon transactions().forAccount(publicKey).limit(limit): the accounts of
\* the model have no transactions; an unknown account is a 404
transactionsForAccount(publicKey, limit, up) ==
    IF ~up THEN Throw(<<M_Network>>)
    ELSE IF publicKey = S("GA") /\ ledger.exists THEN Return(<<>>)
    ELSE Throw(<<"Not Found">>)

\* lines 477-499: handleGetHistory from the reply of the ledger on
handleGetHistoryEnd(args, reply) ==
    IF reply.kind = "throw" THEN Return(ErrorBody(reply.message))
    ELSE Return([error |-> U, transactions |-> reply.value, count |-> Len(reply.value)])

CallGetHistory(c, args) ==
    /\ Free(c)
    /\ LET call == Begin(c, "get_history", args)
       IN calls' = [calls EXCEPT ![c] =
            IF IsUndefined(args) THEN Answer(call, handlerCatch(args, <<TypeError>>))
            ELSE [Traced(call, "walletService.getTransactionHistory")
                    EXCEPT !.pc = "history", !.limit = S(historyLimit(Val(args)))]]
    /\ UNCHANGED <<ledger, defaultAccountSecret, defaultAccountPublic, reads, validateVars, cacheVars, cacheHarnessVars, otherVars>>
    /\ \E requestId \in RequestIds : LogCall(c, requestId)

HistoryReply(c, up) ==
    /\ calls[c].pc = "history"
    /\ LET call == Failed(Traced(calls[c], "ledger.getTransactionHistory"), up)
           args == Val(call.args)
       IN calls' = [calls EXCEPT ![c] =
            Answer(call, handleGetHistoryEnd(args,
                transactionsForAccount(S(args.account), Val(call.limit), up)))]
    /\ UNCHANGED <<ledger, defaultAccountSecret, defaultAccountPublic, reads, validateVars, cacheVars, cacheHarnessVars, otherVars>>
    /\ LogCall(c, NoRequestId)

\* estimate_swap ----------------------------------------------------------

EstimateArgs ==
    {U} \cup {S(a) : a \in [fromToken : {U, S("XLM"), S("USDC"), S("BTC")},
                            toToken : {S("USDC")},
                            amount : {U, S(5), S(10000), S(maxAmount + 1)},
                            slippage : {U, S(0), S(600)}]}

\* lines 506-511: the request handleEstimateSwap builds
estimateRequestOf(args) ==
    [fromToken |-> args.fromToken,
     toToken |-> args.toToken,
     amount |-> args.amount,
     slippage |-> IF FalsyNumber(args.slippage) THEN S(DefaultSlippage) ELSE args.slippage]

\* an estimateSwap that throws what validateSwapRequest reports
estimateSwapStart_Validating(request) ==
    LET validation == validateSwapRequest(request)
    IN IF validation.kind = "throw" THEN Throw(<<TypeError>>)
       ELSE IF ~validation.isValid THEN Throw(validation.errors)
       ELSE IF IsUndefined(request.amount) THEN Throw(<<TypeError>>)
       ELSE Await("estimateQuote")

\* swap-service.ts lines 53-61: estimateSwap up to the quote request; the
\* result of validateSwapRequest is dropped, request.amount.toString() needs
\* an amount
estimateSwapStart(request) ==
    IF validateSwapRequest(request).kind = "throw" THEN Throw(<<TypeError>>)
    ELSE IF IsUndefined(request.amount) THEN Throw(<<TypeError>>)
    ELSE Await("estimateQuote")

\* lines 513-535: handleEstimateSwap from the end of estimateSwap on
handleEstimateSwapEnd(args, estimate) ==
    IF estimate.kind = "throw" THEN handlerCatch(args, estimate.message)
    ELSE Return([error |-> U, estimate |-> S(estimate.value)])

CallEstimateSwap(c, args) ==
    /\ Free(c)
    /\ LET call == Begin(c, "estimate_swap", args)
           request == estimateRequestOf(Val(args))
           start == estimateSwapStart(request)
           began == Traced([call EXCEPT !.request = S(request)], "swapService.estimateSwap")
       IN calls' = [calls EXCEPT ![c] =
            IF IsUndefined(args) THEN Answer(call, handlerCatch(args, <<TypeError>>))
            ELSE IF start.kind = "await" THEN [began EXCEPT !.pc = start.pc]
            ELSE Answer(began, handleEstimateSwapEnd(args, start))]
    /\ UNCHANGED <<ledger, defaultAccountSecret, defaultAccountPublic, reads, validateVars, cacheVars, cacheHarnessVars, otherVars>>
    /\ \E requestId \in RequestIds : LogCall(c, requestId)

EstimateQuote(c, reply) ==
    /\ calls[c].pc = "estimateQuote"
    /\ LET call == Failed(Traced(calls[c], "quote.getQuote"), ~IsUndefined(reply))
       IN calls' = [calls EXCEPT ![c] =
            Answer([call EXCEPT !.obs.quote = reply],
                   handleEstimateSwapEnd(call.args,
                       estimateAfterQuote(Val(call.request), QuoteReply(reply))))]
    /\ UNCHANGED <<ledger, defaultAccountSecret, defaultAccountPublic, reads, validateVars, cacheVars, cacheHarnessVars, otherVars>>
    /\ LogCall(c, NoRequestId)

\* any other tool name -----------------------------------------------------

OtherTools == {"get_quote", ""}

CallUnknownTool(c, name, args) ==
    /\ Free(c)
    /\ calls' = [calls EXCEPT ![c] = Answer(Begin(c, name, args), callToolDefault(name))]
    /\ UNCHANGED <<ledger, defaultAccountSecret, defaultAccountPublic, reads, validateVars, cacheVars, cacheHarnessVars, otherVars>>
    /\ \E requestId \in RequestIds : LogCall(c, requestId)

\* the response of a finished call has been handed to the transport
Deliver(c) ==
    /\ calls[c].pc = "done"
    /\ calls' = [calls EXCEPT ![c] = IdleCall]
    /\ UNCHANGED <<ledger, defaultAccountSecret, defaultAccountPublic, reads, validateVars, cacheVars, cacheHarnessVars, otherVars>>
    /\ requestLog' = Unlogged(requestLog, CallSlot(c))

\* the environment: the account changes on the ledger between two steps
LedgerChange ==
    /\ ledger' \in LedgerStates \ {ledger}
    /\ UNCHANGED <<calls, defaultAccountSecret, defaultAccountPublic, reads, requestLog, validateVars, cacheVars, cacheHarnessVars, otherVars>>

-----------------------------------------------------------------------------
(* WalletService: the session map *)

\* the keys the session map is asked about; "bad" is no Stellar address
SessionKeys == {"GA", "GB", "GX", "bad"}

\* utils.isValidStellarAddress: Keypair.fromPublicKey accepts the key
isValidStellarAddress(publicKey) == publicKey # "bad"

\* an Error as convertStellarError looks at it: its class name, its code, the
\* status of its response when it has one, its message
JsError(name, code, status, message) ==
    [name |-> name, code |-> code, status |-> status, message |-> message]

\* stellar/client.ts lines 369-401 and 444-449: the error classes
StellarConnectionError(message) ==
    JsError("StellarConnectionError", S("STELLAR_CONNECTION_ERROR"), U, message)

StellarAccountNotFoundError(publicKey) ==
    JsError("StellarAccountNotFoundError", S("STELLAR_ACCOUNT_NOT_FOUND"), U,
            <<"Stellar account not found:">> \o publicKey)

InvalidKeypairError(message) ==
    JsError("InvalidKeypairError", S("INVALID_KEYPAIR"), U, message)

\* what Horizon's loadAccount rejects with: a 404 response, or no response
horizonError(up) ==
    IF up THEN JsError("NotFoundError", U, S(404), <<"Not Found">>)
    ELSE JsError("Error", S("ECONNREFUSED"), U, <<M_Network>>)

\* stellar/client.ts lines 468-516
convertStellarError(error) ==
    IF error.code \in {S("ECONNREFUSED"), S("ENOTFOUND")}
    THEN StellarConnectionError(<<"Failed to connect to Stellar network">>)
    ELSE IF error.status = S(404)
    THEN StellarAccountNotFoundError(<<"Resource not found">>)
    ELSE JsError("StellarError", S("STELLAR_CONNECTION_ERROR"), U, error.message)

\* a function ends by throwing error
ThrowError(error) == [kind |-> "throw", error |-> error]

\* StellarClient.getAccount as WalletService sees it: the account, or the
\* Error of line 88, which keeps only the message of what Horizon said
getAccount(publicKey, up) ==
    LET a == loadAccount(S(publicKey), up)
    IN IF a.kind = "return" THEN a
       ELSE ThrowError(JsError("Error", U, U, <<M_LoadAccount>> \o a.message))

\* StellarClient.mapBalance over account.balances: the native entry first
balancesOf(account) ==
    <<[assetType |-> "native", assetCode |-> "XLM", balance |-> account.xlm]>>
    \o (IF account.usdc = U THEN <<>>
        ELSE <<[assetType |-> "credit_alphanum4", assetCode |-> "USDC",
                balance |-> Val(account.usdc)]>>)

BaseReserve == 50
TrustlineReserve == 50

\* utils.calculateAvailableXLM
calculateAvailableXLM(balance, trustlines) ==
    LET available == balance - (BaseReserve + trustlines * TrustlineReserve)
    IN IF available > 0 THEN available ELSE 0

\* a count of every entry of balances, the native one included
trustlinesOf_All(balances) == Len(balances)

\* the number of entries of balances that are not native
trustlinesOf(balances) ==
    Cardinality({i \in 1..Len(balances) : balances[i].assetType # "native"})

\* lines 67-74 and 126-133: the WalletInfo built from an account
WalletInfoOf(publicKey, account) ==
    LET balances == balancesOf(account)
    IN [publicKey |-> publicKey,
        isConnected |-> TRUE,
        balances |-> balances,
        availableXLM |-> calculateAvailableXLM(account.xlm, trustlinesOf(balances)),
        trustlineCount |-> trustlinesOf(balances)]

NoWallets == [k \in SessionKeys |-> U]

IdleWalletCall ==
    [pc |-> "idle", op |-> "", publicKey |-> "", wasConnected |-> FALSE,
     resolved |-> FALSE, notFound |-> FALSE, result |-> U]

\* the catch blocks of connectWallet and refreshWallet
walletCatch(call, error) ==
    [call EXCEPT !.pc = "done", !.result = S(ThrowError(convertStellarError(error)))]

\* connectWallet up to its first ledger call (lines 49-58)
ConnectWallet(publicKey) ==
    /\ walletCall.pc \in {"idle", "done"}
    /\ LET call == [IdleWalletCall EXCEPT !.op = "connect", !.publicKey = publicKey,
                      !.wasConnected = connectedWallets[publicKey] # U]
       IN walletCall' =
            IF ~isValidStellarAddress(publicKey)
            THEN walletCatch(call, InvalidKeypairError(<<"Invalid Stellar public key:", publicKey>>))
            ELSE [call EXCEPT !.pc = "connect.accountExists"]
    /\ lastDisconnect' = U
    /\ UNCHANGED <<connectedWallets, ledger, nonWalletVars>>

\* lines 58-61: accountExists has answered
ConnectAccountExists(up) ==
    /\ walletCall.pc = "connect.accountExists"
    /\ LET reply == accountExists(S(walletCall.publicKey), up)
       IN walletCall' =
            IF reply.kind = "throw" THEN walletCatch(walletCall, horizonError(up))
            ELSE IF ~reply.value
            THEN walletCatch(walletCall, StellarAccountNotFoundError(<<walletCall.publicKey>>))
            ELSE [walletCall EXCEPT !.pc = "connect.getAccount"]
    /\ lastDisconnect' = U
    /\ UNCHANGED <<connectedWallets, ledger, nonWalletVars>>

\* getAccount has answered a connectWallet or a refreshWallet: the WalletInfo
\* is stored and returned, or the failure converted and thrown
WalletGetAccount(up) ==
    /\ walletCall.pc \in {"connect.getAccount", "refresh.getAccount"}
    /\ LET publicKey == walletCall.publicKey
           reply == getAccount(publicKey, up)
           info == WalletInfoOf(publicKey, reply.value)
       IN IF reply.kind = "throw"
          THEN /\ walletCall' = walletCatch([walletCall EXCEPT !.notFound = up], reply.error)
               /\ connectedWallets' = connectedWallets
          ELSE /\ walletCall' = [walletCall EXCEPT !.pc = "done", !.resolved = TRUE,
                                                   !.result = S(Return(info))]
               /\ connectedWallets' = [connectedWallets EXCEPT ![publicKey] = S(info)]
    /\ lastDisconnect' = U
    /\ UNCHANGED <<ledger, nonWalletVars>>

\* refreshWallet up to its ledger call (lines 119-123)
RefreshWallet(publicKey) ==
    /\ walletCall.pc \in {"idle", "done"}
    /\ walletCall' = [IdleWalletCall EXCEPT !.pc = "refresh.getAccount", !.op = "refresh",
                        !.publicKey = publicKey,
                        !.wasConnected = connectedWallets[publicKey] # U]
    /\ lastDisconnect' = U
    /\ UNCHANGED <<connectedWallets, ledger, nonWalletVars>>

\* disconnectWallet with the Map cleared instead of one key deleted
disconnectWallet_ClearAll(wallets, publicKey) ==
    IF wallets[publicKey] # U THEN NoWallets ELSE wallets

\* lines 95-100: the session map after disconnectWallet(publicKey)
disconnectWallet(wallets, publicKey) ==
    IF wallets[publicKey] # U THEN [wallets EXCEPT ![publicKey] = U] ELSE wallets

DisconnectWallet(publicKey) ==
    /\ connectedWallets' = disconnectWallet(connectedWallets, publicKey)
    /\ lastDisconnect' = S([publicKey |-> publicKey,
                            wasConnected |-> connectedWallets[publicKey] # U,
                            before |-> connectedWallets])
    /\ UNCHANGED <<walletCall, ledger, nonWalletVars>>

\* the environment of the wallet service: the account GA changes on the ledger
WalletLedgerChange ==
    /\ ledger' \in LedgerStates \ {ledger}
    /\ lastDisconnect' = U
    /\ UNCHANGED <<connectedWallets, walletCall, nonWalletVars>>

InitWalletIdle ==
    /\ connectedWallets = NoWallets
    /\ walletCall = IdleWalletCall
    /\ lastDisconnect = U

-----------------------------------------------------------------------------
(* Resource reads: the ReadResourceRequestSchema handler *)

KnownUris ==
    {"soroswap://account/info", "soroswap://market/prices",
     "soroswap://pools/liquidity", "soroswap://network/status"}

OtherUris == {"soroswap://unknown", ""}

M_UnknownResource == "Unknown resource:"
M_NoDefaultAccount == "No default account configured"

IdleRead ==
    [pc |-> "idle", uri |-> "", trace |-> <<>>, oracleFailed |-> FALSE,
     outcome |-> "none", response |-> U, error |-> U]

\* the read handler answering a failure the way the tool-call handler does
ReadEnvelope_Swallow(uri, completion) ==
    [outcome |-> "returned",
     response |-> S([uri |-> uri, isError |-> completion.kind = "throw",
                     json |-> IF completion.kind = "return" THEN S(completion.value) ELSE U]),
     error |-> U]

\* server.ts lines 135-151: what the read handler does with what readResource did
ReadEnvelope(uri, completion) ==
    IF completion.kind = "return"
    THEN [outcome |-> "returned",
          response |-> S([uri |-> uri, isError |-> FALSE, json |-> S(completion.value)]),
          error |-> U]
    ELSE [outcome |-> "threw", response |-> U, error |-> S(completion.message)]

\* readResource has ended with completion: the read handler ends
AnswerRead(read, completion) ==
    LET e == ReadEnvelope(read.uri, completion)
    IN [read EXCEPT !.pc = "done", !.outcome = e.outcome, !.response = e.response,
                    !.error = e.error]

\* lines 353-354: the default case of readResource
readResourceDefault(uri) == Throw(<<M_UnknownResource, uri>>)

\* the catch block every resource method has (lines 566-572, 599-605, 635-641,
\* 699-705): the failure becomes an object
resourceCatch(completion) ==
    IF completion.kind = "throw" THEN Return(ErrorBody(completion.message)) ELSE completion

\* server.ts lines 133, 137 and 150: the events of the read in slot r
LogRead(r, requestId) ==
    requestLog' = Logged(requestLog, ReadSlot(r), "read_resource", reads[r], reads'[r],
                         requestId, reads'[r].outcome = "returned")

\* what a resource read leaves alone, the price cache and the session map apart
readFrame ==
    <<calls, ledger, defaultAccountSecret, defaultAccountPublic, now, validateVars,
      cacheHarnessVars, walletCall, lastDisconnect, process, lifecycleVars>>

BeginRead(uri) == [IdleRead EXCEPT !.uri = uri]

ReadUnknownResource(r, uri) ==
    /\ reads[r].pc = "idle"
    /\ reads' = [reads EXCEPT ![r] = AnswerRead(BeginRead(uri), readResourceDefault(uri))]
    /\ \E requestId \in RequestIds : LogRead(r, requestId)
    /\ UNCHANGED <<readFrame, priceCache, connectedWallets>>

\* account/info: getAccountInfo and getDefaultAccountInfo up to the ledger
ReadAccountInfo(r) ==
    /\ reads[r].pc = "idle"
    /\ LET read == BeginRead("soroswap://account/info")
           began == [read EXCEPT !.trace = <<"walletService.getDefaultAccountInfo">>]
       IN reads' = [reads EXCEPT ![r] =
            IF FalsyString(defaultAccountPublic)
            THEN AnswerRead(began, Return([error |-> U, message |-> S(M_NoDefaultAccount)]))
            ELSE [began EXCEPT !.pc = "info.accountExists"]]
    /\ \E requestId \in RequestIds : LogRead(r, requestId)
    /\ UNCHANGED <<readFrame, priceCache, connectedWallets>>

\* getDefaultAccountInfo turns every failure of connectWallet into null, and
\* getAccountInfo answers null with the message of lines 561-564
noDefaultAccountInfo(read) ==
    AnswerRead(read, Return([error |-> U, message |-> S(M_NoDefaultAccount)]))

InfoAccountExists(r, up) ==
    /\ reads[r].pc = "info.accountExists"
    /\ LET read == [reads[r] EXCEPT !.trace = Append(@, "ledger.accountExists"),
                                    !.oracleFailed = @ \/ ~up]
           reply == accountExists(defaultAccountPublic, up)
       IN reads' = [reads EXCEPT ![r] =
            IF reply.kind = "throw" \/ ~reply.value THEN noDefaultAccountInfo(read)
            ELSE [read EXCEPT !.pc = "info.getAccount"]]
    /\ LogRead(r, NoRequestId)
    /\ UNCHANGED <<readFrame, priceCache, connectedWallets>>

InfoGetAccount(r, up) ==
    /\ reads[r].pc = "info.getAccount"
    /\ LET read == [reads[r] EXCEPT !.trace = Append(@, "ledger.getAccount"),
                                    !.oracleFailed = @ \/ ~up]
           publicKey == Val(defaultAccountPublic)
           reply == getAccount(publicKey, up)
           info == WalletInfoOf(publicKey, reply.value)
       IN IF reply.kind = "throw"
          THEN /\ reads' = [reads EXCEPT ![r] = noDefaultAccountInfo(read)]
               /\ connectedWallets' = connectedWallets
          ELSE /\ reads' = [reads EXCEPT ![r] =
                    AnswerRead(read, Return([error |-> U, account |-> S(info)]))]
               /\ connectedWallets' = [connectedWallets EXCEPT ![publicKey] = S(info)]
    /\ LogRead(r, NoRequestId)
    /\ UNCHANGED <<readFrame, priceCache>>

\* what the price API answers to GET /prices: a list of SoroswapPrice
AllPricesReplies ==
    {<<>>, <<[symbol |-> <<"XLM">>, price |-> <<2, 1>>, priceUsd |-> 2]>>}

RECURSIVE cacheAllPrices(_, _, _)
\* wallet-service.ts lines 515-518: every price is cached under single-<symbol>
cacheAllPrices(cache, prices, t) ==
    IF prices = <<>> THEN cache
    ELSE cacheAllPrices(setCachedPrice(cache, <<"single-">> \o prices[1].symbol, prices[1], t),
                        Tail(prices), t)

\* PriceService.getAllPrices from the reply of the price API on
getAllPricesReply(reply, up) == IF up THEN Return(reply) ELSE Throw(<<M_Network>>)

ReadMarketPrices(r) ==
    /\ reads[r].pc = "idle"
    /\ reads' = [reads EXCEPT ![r] =
            [BeginRead("soroswap://market/prices")
                EXCEPT !.pc = "prices.summary", !.trace = <<"priceService.getMarketSummary">>]]
    /\ \E requestId \in RequestIds : LogRead(r, requestId)
    /\ UNCHANGED <<readFrame, priceCache, connectedWallets>>

\* lines 578-579: getMarketSummary, which asks for all prices, has answered
PricesSummary(r, reply, up) ==
    /\ reads[r].pc = "prices.summary"
    /\ LET read == [reads[r] EXCEPT !.trace = Append(@, "price.getAllPrices"),
                                    !.oracleFailed = @ \/ ~up]
           got == getAllPricesReply(reply, up)
       IN /\ reads' = [reads EXCEPT ![r] =
                IF got.kind = "throw" THEN AnswerRead(read, resourceCatch(got))
                ELSE [read EXCEPT !.pc = "prices.all",
                                  !.trace = Append(@, "priceService.getAllPrices")]]
          /\ priceCache' = IF got.kind = "throw" THEN priceCache
                           ELSE cacheAllPrices(priceCache, reply, now)
    /\ LogRead(r, NoRequestId)
    /\ UNCHANGED <<readFrame, connectedWallets>>

\* lines 579-598: getAllPrices has answered
PricesAll(r, reply, up) ==
    /\ reads[r].pc = "prices.all"
    /\ LET read == [reads[r] EXCEPT !.trace = Append(@, "price.getAllPrices"),
                                    !.oracleFailed = @ \/ ~up]
           got == getAllPricesReply(reply, up)
       IN /\ reads' = [reads EXCEPT ![r] =
                AnswerRead(read, resourceCatch(
                    IF got.kind = "throw" THEN got
                    ELSE Return([error |-> U, prices |-> S(reply)])))]
          /\ priceCache' = IF got.kind = "throw" THEN priceCache
                           ELSE cacheAllPrices(priceCache, reply, now)
    /\ LogRead(r, NoRequestId)
    /\ UNCHANGED <<readFrame, connectedWallets>>

ReadLiquidityPools(r) ==
    /\ reads[r].pc = "idle"
    /\ reads' = [reads EXCEPT ![r] =
            [BeginRead("soroswap://pools/liquidity")
                EXCEPT !.pc = "pools", !.trace = <<"soroswapClient.getPools">>]]
    /\ \E requestId \in RequestIds : LogRead(r, requestId)
    /\ UNCHANGED <<readFrame, priceCache, connectedWallets>>

\* lines 612-641: getPools has answered (the model's API lists no pool)
PoolsReply(r, up) ==
    /\ reads[r].pc = "pools"
    /\ LET read == [reads[r] EXCEPT !.oracleFailed = @ \/ ~up]
       IN reads' = [reads EXCEPT ![r] =
            AnswerRead(read, resourceCatch(
                IF up THEN Return([error |-> U, pools |-> S(<<>>), count |-> S(0)])
                ELSE Throw(<<M_Network>>)))]
    /\ LogRead(r, NoRequestId)
    /\ UNCHANGED <<readFrame, priceCache, connectedWallets>>

ReadNetworkStatus(r) ==
    /\ reads[r].pc = "idle"
    /\ reads' = [reads EXCEPT ![r] =
            [BeginRead("soroswap://network/status")
                EXCEPT !.pc = "status", !.trace = <<"testConnection", "healthCheck">>]]
    /\ \E requestId \in RequestIds : LogRead(r, requestId)
    /\ UNCHANGED <<readFrame, priceCache, connectedWallets>>

\* lines 653-698: the five checks of Promise.all have answered; each turns a
\* failure of Horizon or of the Soroswap API into a false flag
StatusReply(r, stellarUp, soroswapUp) ==
    /\ reads[r].pc = "status"
    /\ LET read == [reads[r] EXCEPT !.oracleFailed = @ \/ ~stellarUp \/ ~soroswapUp]
       IN reads' = [reads EXCEPT ![r] =
            AnswerRead(read, Return([error |-> U, stellar |-> S(stellarUp),
                                     soroswap |-> S(soroswapUp)]))]
    /\ LogRead(r, NoRequestId)
    /\ UNCHANGED <<readFrame, priceCache, connectedWallets>>

\* the outcome of a finished read has been handed to the transport
DeliverRead(r) ==
    /\ reads[r].pc = "done"
    /\ reads' = [reads EXCEPT ![r] = IdleRead]
    /\ requestLog' = Unlogged(requestLog, ReadSlot(r))
    /\ UNCHANGED <<readFrame, priceCache, connectedWallets>>

-----------------------------------------------------------------------------
(* Startup: the config module's load, validateConfig and main *)

MinSecretLength == 32
ProductionSecretLength == 64

\* the lengths of a secret in process.env, U when it is not set
SecretLengths == {U, S(0), S(31), S(32), S(63), S(64), S(65)}

\* process.env, as far as EnvSchema and validateConfig look at it; urlsValid:
\* the remaining variables satisfy EnvSchema
Environments ==
    [NODE_ENV : {"development", "production", "test"},
     STELLAR_NETWORK : {"testnet", "mainnet"},
     DEFAULT_ACCOUNT_SECRET : {U, S("SA")},
     DEFAULT_ACCOUNT_PUBLIC : {U, S("GA")},
     JWT_SECRET : SecretLengths,
     ENCRYPTION_KEY : SecretLengths,
     urlsValid : BOOLEAN]

\* z.string().min(32) on a variable of process.env
validSecret(secret) == secret # U /\ Val(secret) >= MinSecretLength

\* lines 292-335: EnvSchema.parse(process.env) succeeds
validateEnv(env) ==
    /\ env.urlsValid
    /\ validSecret(env.JWT_SECRET)
    /\ validSecret(env.ENCRYPTION_KEY)

M_NoStellarAccount == "no Stellar account"
M_JwtSecretShort == "JWT secret shorter than 64"
M_EncryptionKeyShort == "encryption key shorter than 64"
M_MainnetSecret == "account secret on mainnet"

\* validateConfig with the two length checks of production reported by
\* console.warn
validateConfig_WarnOnly(env) ==
    [errors |->
        IF FalsyString(env.DEFAULT_ACCOUNT_SECRET) /\ FalsyString(env.DEFAULT_ACCOUNT_PUBLIC)
        THEN <<M_NoStellarAccount>> ELSE <<>>,
     warnings |->
        IF env.NODE_ENV = "production"
        THEN (IF Val(env.JWT_SECRET) < ProductionSecretLength
              THEN <<M_JwtSecretShort>> ELSE <<>>)
             \o (IF Val(env.ENCRYPTION_KEY) < ProductionSecretLength
                 THEN <<M_EncryptionKeyShort>> ELSE <<>>)
        ELSE <<>>]

\* lines 423-453: the errors validateConfig collects and the warnings it prints
validateConfig(env) ==
    [errors |->
        (IF FalsyString(env.DEFAULT_ACCOUNT_SECRET) /\ FalsyString(env.DEFAULT_ACCOUNT_PUBLIC)
         THEN <<M_NoStellarAccount>> ELSE <<>>)
        \o (IF env.NODE_ENV = "production" /\ Val(env.JWT_SECRET) < ProductionSecretLength
            THEN <<M_JwtSecretShort>> ELSE <<>>)
        \o (IF env.NODE_ENV = "production" /\ Val(env.ENCRYPTION_KEY) < ProductionSecretLength
            THEN <<M_EncryptionKeyShort>> ELSE <<>>),
     warnings |->
        IF /\ env.NODE_ENV = "production"
           /\ env.STELLAR_NETWORK = "mainnet"
           /\ ~FalsyString(env.DEFAULT_ACCOUNT_SECRET)
        THEN <<M_MainnetSecret>> ELSE <<>>]

DefaultEnv ==
    [NODE_ENV |-> "test", STELLAR_NETWORK |-> "testnet",
     DEFAULT_ACCOUNT_SECRET |-> U, DEFAULT_ACCOUNT_PUBLIC |-> U,
     JWT_SECRET |-> S(32), ENCRYPTION_KEY |-> S(32), urlsValid |-> TRUE]

\* a process about to load its modules
Launched(env) ==
    [pc |-> "load", env |-> env, exitCode |-> U, exitedIn |-> "", errors |-> <<>>,
     warnings |-> <<>>, printed |-> FALSE, constructed |-> FALSE, started |-> FALSE]

\* process.exit(code) called in step
Exited(proc, code, step) ==
    [proc EXCEPT !.pc = "exited", !.exitCode = S(code), !.exitedIn = step]

\* an invocation slot nobody uses
IdleControl == [op |-> "", pc |-> "idle", outcome |-> "none"]

ControlSlots == {1, 2}

\* no lifecycle method has been invoked yet
InitLifecycleIdle ==
    /\ control = [o \in ControlSlots |-> IdleControl]
    /\ lastStep = [kind |-> "init", slot |-> 0, before |-> FALSE]

\* the process of the specifications that begin with a server at work
InitRunning ==
    /\ process = [Launched(DefaultEnv) EXCEPT !.pc = "running", !.constructed = TRUE,
                                              !.started = TRUE]
    /\ isRunning = TRUE
    /\ InitLifecycleIdle

\* what the startup leaves alone
startupFrame ==
    <<calls, ledger, reads, requestLog, validateVars, cacheVars, cacheHarnessVars, walletVars,
      control, lastStep>>

\* lines 324-356: the config module is loaded: validateEnv, then the config objects
LoadConfig ==
    /\ process.pc = "load"
    /\ IF validateEnv(process.env)
       THEN /\ process' = [process EXCEPT !.pc = "main"]
            /\ defaultAccountSecret' = process.env.DEFAULT_ACCOUNT_SECRET
            /\ defaultAccountPublic' = process.env.DEFAULT_ACCOUNT_PUBLIC
       ELSE /\ process' = Exited(process, 1, "validateEnv")
            /\ UNCHANGED <<defaultAccountSecret, defaultAccountPublic>>
    /\ UNCHANGED <<startupFrame, isRunning>>

\* index.ts lines 16-21: main validates the configuration
ValidateConfig ==
    /\ process.pc = "main"
    /\ LET found == validateConfig(process.env)
           warned == [process EXCEPT !.errors = found.errors, !.warnings = found.warnings]
       IN process' = IF found.errors # <<>> THEN Exited(warned, 1, "validateConfig")
                     ELSE [warned EXCEPT !.pc = "print"]
    /\ UNCHANGED <<startupFrame, isRunning, defaultAccountSecret, defaultAccountPublic>>

\* index.ts lines 23-26: printConfig in development only
PrintConfig ==
    /\ process.pc = "print"
    /\ process' = [process EXCEPT !.pc = "construct",
                                  !.printed = process.env.NODE_ENV = "development"]
    /\ UNCHANGED <<startupFrame, isRunning, defaultAccountSecret, defaultAccountPublic>>

\* index.ts line 30
ConstructServer ==
    /\ process.pc = "construct"
    /\ process' = [process EXCEPT !.pc = "start", !.constructed = TRUE]
    /\ UNCHANGED <<startupFrame, isRunning, defaultAccountSecret, defaultAccountPublic>>

\* index.ts lines 33-43: server.start() resolves, or rejects and main's catch exits
StartServer(connected) ==
    /\ process.pc = "start"
    /\ process' = IF connected THEN [process EXCEPT !.pc = "running", !.started = TRUE]
                  ELSE Exited(process, 1, "main")
    /\ isRunning' = connected
    /\ UNCHANGED <<startupFrame, defaultAccountSecret, defaultAccountPublic>>

-----------------------------------------------------------------------------
(* The lifecycle of SoroswapMCPServer: start, stop, and the shutdown handler *)

\* server.ts lines 713-722: start up to the await of server.connect
start(running) ==
    IF running THEN [pc |-> "done", outcome |-> "noop", isRunning |-> running]
    ELSE [pc |-> "connect", outcome |-> "none", isRunning |-> running]

\* lines 722-732: start from the end of server.connect on
afterConnect(ok, running) ==
    IF ok THEN [pc |-> "done", outcome |-> "resolved", isRunning |-> TRUE]
    ELSE [pc |-> "done", outcome |-> "rejected", isRunning |-> running]

\* a stop that clears the flag before it awaits server.close
stop_FlagFirst(running) ==
    IF ~running THEN [pc |-> "done", outcome |-> "noop", isRunning |-> running]
    ELSE [pc |-> "close", outcome |-> "none", isRunning |-> FALSE]

\* lines 738-747: stop up to the await of server.close
stop(running) ==
    IF ~running THEN [pc |-> "done", outcome |-> "noop", isRunning |-> running]
    ELSE [pc |-> "close", outcome |-> "none", isRunning |-> running]

\* lines 747-755: stop from the end of server.close on
afterClose(ok, running) ==
    IF ok THEN [pc |-> "done", outcome |-> "resolved", isRunning |-> FALSE]
    ELSE [pc |-> "done", outcome |-> "rejected", isRunning |-> running]

\* the slot o after a step of the invocation op that leaves it as step says;
\* index.ts lines 54-60: a shutdown whose stop has resolved goes on to closeLogger
Stepped(o, op, step) ==
    [control EXCEPT ![o] =
        [op |-> op,
         pc |-> IF op = "shutdown" /\ step.pc = "done" /\ step.outcome # "rejected"
                THEN "closeLogger" ELSE step.pc,
         outcome |-> step.outcome]]

\* index.ts lines 40-43 and 62-65: a start that main awaits, or a stop that
\* the shutdown handler awaits, has thrown: process.exit(1)
ExitOnReject(op, step) ==
    IF step.outcome = "rejected" /\ op \in {"main", "shutdown"}
    THEN Exited(process, 1, op)
    ELSE IF op = "main" /\ step.outcome = "resolved"
    THEN [process EXCEPT !.pc = "running", !.started = TRUE]
    ELSE process

LifecycleStep(o, kind, op, step) ==
    /\ control' = Stepped(o, op, step)
    /\ isRunning' = step.isRunning
    /\ process' = ExitOnReject(op, step)
    /\ lastStep' = [kind |-> kind, slot |-> o, before |-> isRunning]
    /\ UNCHANGED <<calls, ledger, defaultAccountSecret, defaultAccountPublic, reads,
                   requestLog, validateVars, cacheVars, cacheHarnessVars, walletVars>>

\* index.ts line 33: main awaits server.start()
MainStart(o) ==
    /\ process.pc = "start"
    /\ \A p \in ControlSlots : control[p].pc = "idle"
    /\ LifecycleStep(o, "start", "main", start(isRunning))

\* start() invoked by any other holder of the server
Start(o) ==
    /\ process.pc = "running"
    /\ control[o].pc = "idle"
    /\ LifecycleStep(o, "start", "start", start(isRunning))

\* server.connect(transport) has resolved, or has thrown
Connected(o, ok) ==
    /\ process.pc # "exited"
    /\ control[o].pc = "connect"
    /\ LifecycleStep(o, "connect", control[o].op, afterConnect(ok, isRunning))

\* stop() invoked by any holder of the server
Stop(o) ==
    /\ process.pc = "running"
    /\ control[o].pc = "idle"
    /\ LifecycleStep(o, "stop", "stop", stop(isRunning))

\* index.ts lines 50-56 and 69-70: a termination signal arrives and the
\* shutdown handler awaits server.stop()
Shutdown(o) ==
    /\ process.pc = "running"
    /\ control[o].pc = "idle"
    /\ LifecycleStep(o, "stop", "shutdown", stop(isRunning))

\* server.close() has resolved, or has thrown
Closed(o, ok) ==
    /\ process.pc # "exited"
    /\ control[o].pc = "close"
    /\ LifecycleStep(o, "close", control[o].op, afterClose(ok, isRunning))

\* index.ts lines 58-65: closeLogger has resolved, process.exit(0), or has
\* thrown, process.exit(1)
LoggerClosed(o, ok) ==
    /\ process.pc # "exited"
    /\ control[o].pc = "closeLogger"
    /\ control' = [control EXCEPT ![o].pc = "done"]
    /\ process' = Exited(process, IF ok THEN 0 ELSE 1, "shutdown")
    /\ lastStep' = [kind |-> "closeLogger", slot |-> o, before |-> isRunning]
    /\ UNCHANGED <<isRunning, calls, ledger, defaultAccountSecret, defaultAccountPublic, reads,
                   requestLog, validateVars, cacheVars, cacheHarnessVars, walletVars>>

\* the caller of start or stop has its outcome; the slot is free again
Settle(o) ==
    /\ process.pc # "exited"
    /\ control[o].pc = "done"
    /\ control' = [control EXCEPT ![o] = IdleControl]
    /\ lastStep' = [kind |-> "settle", slot |-> o, before |-> isRunning]
    /\ UNCHANGED <<isRunning, process, calls, ledger, defaultAccountSecret,
                   defaultAccountPublic, reads, requestLog, validateVars, cacheVars,
                   cacheHarnessVars, walletVars>>

-----------------------------------------------------------------------------
(* Initial states and specifications *)

NoCalls == <<>>

NoLedger == [exists |-> FALSE, xlm |-> 0, usdc |-> U]

InitValidateIdle ==
    /\ vreq = [fromToken |-> U, toToken |-> U, amount |-> U, slippage |-> S(100)]
    /\ vres = Pending

InitCache ==
    /\ priceCache = <<>>
    /\ now = 0
    /\ putLog = [k \in HarnessKeys |-> U]
    /\ putRun = EmptyRun
    /\ lastPut = U
    /\ lastGet = U

InitServerIdle ==
    /\ calls = NoCalls
    /\ ledger = NoLedger
    /\ defaultAccountSecret = U
    /\ defaultAccountPublic = U
    /\ reads = <<>>
    /\ requestLog = <<>>

\* validateSwapRequest on every request of ValidateRequests
InitValidate ==
    /\ vreq \in ValidateRequests
    /\ vres = Pending
    /\ InitCache
    /\ InitServerIdle
    /\ InitWalletIdle
    /\ InitRunning

NextValidate == Validate

SpecValidate == InitValidate /\ [][NextValidate]_vars

\* the price cache under every order of its operations
InitCacheHarness ==
    /\ InitValidateIdle
    /\ InitCache
    /\ InitServerIdle
    /\ InitWalletIdle
    /\ InitRunning

NextCache ==
    \/ \E key \in HarnessKeys, price \in HarnessPrices : Put(key, price)
    \/ \E key \in HarnessKeys : Get(key)
    \/ Clear
    \/ Sweep
    \/ Tick

SpecCache == InitCacheHarness /\ [][NextCache]_vars

\* the server answering one tool call at a time
InitServer ==
    /\ InitValidateIdle
    /\ InitCache
    /\ calls = [c \in {1} |-> IdleCall]
    /\ ledger \in LedgerStates
    /\ defaultAccountSecret \in {U, S("SA")}
    /\ defaultAccountPublic = U
    /\ reads = <<>>
    /\ requestLog = <<>>
    /\ InitWalletIdle
    /\ InitRunning

Next ==
    \/ \E c \in DOMAIN calls, args \in SwapArgs : CallSwapTokens(c, args)
    \/ \E c \in DOMAIN calls, up \in BOOLEAN : SwapAccountExists(c, up)
    \/ \E c \in DOMAIN calls, up \in BOOLEAN : SwapFromTrustline(c, up)
    \/ \E c \in DOMAIN calls, up \in BOOLEAN : SwapToTrustline(c, up)
    \/ \E c \in DOMAIN calls, up \in BOOLEAN : SwapBalance(c, up)
    \/ \E c \in DOMAIN calls, reply \in Quotes : SwapQuote(c, S(reply))
    \/ \E c \in DOMAIN calls : SwapQuote(c, U)
    \/ \E c \in DOMAIN calls, args \in PriceArgs : CallGetPrice(c, args)
    \/ \E c \in DOMAIN calls, reply \in OraclePrices, up \in BOOLEAN : PriceFrom(c, reply, up)
    \/ \E c \in DOMAIN calls, reply \in OraclePrices, up \in BOOLEAN : PriceTo(c, reply, up)
    \/ \E c \in DOMAIN calls, args \in BalanceArgs : CallGetBalance(c, args)
    \/ \E c \in DOMAIN calls, up \in BOOLEAN : BalanceReply(c, up)
    \/ \E c \in DOMAIN calls, args \in HistoryArgs : CallGetHistory(c, args)
    \/ \E c \in DOMAIN calls, up \in BOOLEAN : HistoryReply(c, up)
    \/ \E c \in DOMAIN calls, args \in EstimateArgs : CallEstimateSwap(c, args)
    \/ \E c \in DOMAIN calls, reply \in Quotes : EstimateQuote(c, S(reply))
    \/ \E c \in DOMAIN calls : EstimateQuote(c, U)
    \/ \E c \in DOMAIN calls, name \in OtherTools, args \in {U, S([x |-> 1])} :
          CallUnknownTool(c, name, args)
    \/ \E c \in DOMAIN calls : Deliver(c)
    \/ LedgerChange

Spec == InitServer /\ [][Next]_vars

\* the wallet service: one connect or refresh at a time, disconnects and
\* ledger changes at any moment
InitWallet ==
    /\ InitValidateIdle
    /\ InitCache
    /\ calls = NoCalls
    /\ ledger \in LedgerStates
    /\ defaultAccountSecret = U
    /\ defaultAccountPublic = U
    /\ reads = <<>>
    /\ requestLog = <<>>
    /\ InitWalletIdle
    /\ InitRunning

NextWallet ==
    \/ \E publicKey \in SessionKeys :
          ConnectWallet(publicKey)
    \/ \E up \in BOOLEAN :
          ConnectAccountExists(up)
    \/ \E up \in BOOLEAN :
          WalletGetAccount(up)
    \/ \E publicKey \in SessionKeys :
          RefreshWallet(publicKey)
    \/ \E publicKey \in SessionKeys :
          DisconnectWallet(publicKey)
    \/ WalletLedgerChange

SpecWallet == InitWallet /\ [][NextWallet]_vars

\* the server answering one resource read at a time
InitResource ==
    /\ InitValidateIdle
    /\ InitCache
    /\ calls = NoCalls
    /\ ledger \in LedgerStates
    /\ defaultAccountSecret = U
    /\ defaultAccountPublic \in {U, S("GA")}
    /\ reads = [r \in {1} |-> IdleRead]
    /\ requestLog = <<>>
    /\ InitWalletIdle
    /\ InitRunning

NextResource ==
    \/ \E r \in DOMAIN reads, uri \in OtherUris : ReadUnknownResource(r, uri)
    \/ \E r \in DOMAIN reads : ReadAccountInfo(r)
    \/ \E r \in DOMAIN reads, up \in BOOLEAN : InfoAccountExists(r, up)
    \/ \E r \in DOMAIN reads, up \in BOOLEAN : InfoGetAccount(r, up)
    \/ \E r \in DOMAIN reads : ReadMarketPrices(r)
    \/ \E r \in DOMAIN reads, reply \in AllPricesReplies, up \in BOOLEAN : PricesSummary(r, reply, up)
    \/ \E r \in DOMAIN reads, reply \in AllPricesReplies, up \in BOOLEAN : PricesAll(r, reply, up)
    \/ \E r \in DOMAIN reads : ReadLiquidityPools(r)
    \/ \E r \in DOMAIN reads, up \in BOOLEAN : PoolsReply(r, up)
    \/ \E r \in DOMAIN reads : ReadNetworkStatus(r)
    \/ \E r \in DOMAIN reads, stellarUp \in BOOLEAN, soroswapUp \in BOOLEAN :
          StatusReply(r, stellarUp, soroswapUp)
    \/ \E r \in DOMAIN reads : DeliverRead(r)
    \/ LedgerChange

SpecResource == InitResource /\ [][NextResource]_vars

\* the startup of the process under every environment of Environments
InitStartup ==
    /\ InitValidateIdle
    /\ InitCache
    /\ InitServerIdle
    /\ InitWalletIdle
    /\ process \in {Launched(env) : env \in Environments}
    /\ isRunning = FALSE
    /\ InitLifecycleIdle

NextStartup ==
    \/ LoadConfig
    \/ ValidateConfig
    \/ PrintConfig
    \/ ConstructServer
    \/ \E connected \in BOOLEAN : StartServer(connected)

SpecStartup == InitStartup /\ [][NextStartup]_vars

\* the swap_tokens calls of the concurrent server: both for the account of SA
ConcurrentSwapArgs ==
    {S([fromToken |-> S("XLM"), toToken |-> S("USDC"), amount |-> S(10000),
        slippage |-> S(100), accountSecret |-> S("SA")]),
     S([fromToken |-> S("USDC"), toToken |-> S("XLM"), amount |-> S(10000),
        slippage |-> S(100), accountSecret |-> U])}

\* the server with two tool calls and a resource read in flight together: the
\* handlers are async functions, and every await lets another handler run
InitConcurrent ==
    /\ InitValidateIdle
    /\ InitCache
    /\ calls = [c \in {1, 2} |-> IdleCall]
    /\ ledger = [exists |-> TRUE, xlm |-> 15000, usdc |-> S(15000)]
    /\ defaultAccountSecret = S("SA")
    /\ defaultAccountPublic = U
    /\ reads = [r \in {1} |-> IdleRead]
    /\ requestLog = <<>>
    /\ InitWalletIdle
    /\ InitRunning

NextConcurrent ==
    \/ \E c \in DOMAIN calls, args \in ConcurrentSwapArgs : CallSwapTokens(c, args)
    \/ \E c \in DOMAIN calls, up \in BOOLEAN : SwapAccountExists(c, up)
    \/ \E c \in DOMAIN calls, up \in BOOLEAN : SwapFromTrustline(c, up)
    \/ \E c \in DOMAIN calls, up \in BOOLEAN : SwapToTrustline(c, up)
    \/ \E c \in DOMAIN calls, up \in BOOLEAN : SwapBalance(c, up)
    \/ \E c \in DOMAIN calls, reply \in Quotes : SwapQuote(c, S(reply))
    \/ \E c \in DOMAIN calls : SwapQuote(c, U)
    \/ \E c \in DOMAIN calls : CallUnknownTool(c, "get_quote", U)
    \/ \E c \in DOMAIN calls : Deliver(c)
    \/ \E r \in DOMAIN reads, uri \in OtherUris : ReadUnknownResource(r, uri)
    \/ \E r \in DOMAIN reads : ReadLiquidityPools(r)
    \/ \E r \in DOMAIN reads, up \in BOOLEAN : PoolsReply(r, up)
    \/ \E r \in DOMAIN reads : DeliverRead(r)

SpecConcurrent == InitConcurrent /\ [][NextConcurrent]_vars

\* the get_price calls of the concurrent price lookups
ConcurrentPriceArgs ==
    {S([tokenPair |-> S("XLM/USDC")]), S([tokenPair |-> S("USDC/XLM")])}

\* two get_price calls in flight together, under a clock that advances
InitPrices ==
    /\ InitValidateIdle
    /\ InitCache
    /\ calls = [c \in {1, 2} |-> IdleCall]
    /\ ledger = NoLedger
    /\ defaultAccountSecret = U
    /\ defaultAccountPublic = U
    /\ reads = <<>>
    /\ requestLog = <<>>
    /\ InitWalletIdle
    /\ InitRunning

NextPrices ==
    \/ \E c \in DOMAIN calls, args \in ConcurrentPriceArgs : CallGetPrice(c, args)
    \/ \E c \in DOMAIN calls, reply \in OraclePrices, up \in BOOLEAN : PriceFrom(c, reply, up)
    \/ \E c \in DOMAIN calls, reply \in OraclePrices, up \in BOOLEAN : PriceTo(c, reply, up)
    \/ \E c \in DOMAIN calls : Deliver(c)
    \/ Tick

SpecPrices == InitPrices /\ [][NextPrices]_vars

\* a constructed server that main is about to start, then driven by start,
\* stop and termination signals that may arrive together
InitLifecycle ==
    /\ InitValidateIdle
    /\ InitCache
    /\ InitServerIdle
    /\ InitWalletIdle
    /\ process = [Launched(DefaultEnv) EXCEPT !.pc = "start", !.constructed = TRUE]
    /\ isRunning = FALSE
    /\ InitLifecycleIdle

NextLifecycle ==
    \/ \E o \in ControlSlots : MainStart(o)
    \/ \E o \in ControlSlots : Start(o)
    \/ \E o \in ControlSlots, ok \in BOOLEAN : Connected(o, ok)
    \/ \E o \in ControlSlots : Stop(o)
    \/ \E o \in ControlSlots : Shutdown(o)
    \/ \E o \in ControlSlots, ok \in BOOLEAN : Closed(o, ok)
    \/ \E o \in ControlSlots, ok \in BOOLEAN : LoggerClosed(o, ok)
    \/ \E o \in ControlSlots : Settle(o)

SpecLifecycle == InitLifecycle /\ [][NextLifecycle]_vars

-----------------------------------------------------------------------------
(* Claims about the tool dispatcher and executeSwap, checked under Spec *)

Done(c) == calls[c].pc = "done"

\* C1: every finished call of a known tool, whatever its arguments and
\* whatever the oracles did, has handed a response envelope back to the
\* caller; no exception has left the tool-call handler.
C1_HandlerNeverThrows ==
    \A c \in DOMAIN calls :
        (Done(c) /\ calls[c].name \in KnownTools)
            => /\ calls[c].outcome = "returned"
               /\ calls[c].response # U

\* C1 witness: a known tool has thrown out of its own handler method (its
\* catch block failed on undefined arguments) and the dispatcher has answered
C1_Witness ==
    \E c \in DOMAIN calls :
        /\ Done(c)
        /\ calls[c].name \in KnownTools
        /\ calls[c].response # U
        /\ Val(calls[c].response).isError

\* C2: a finished call whose name is not one of the five tools has returned a
\* response with isError true whose text names the unknown tool, and no
\* component operation was invoked for it.
C2_UnknownTool ==
    \A c \in DOMAIN calls :
        (Done(c) /\ calls[c].name \notin KnownTools)
            => /\ calls[c].outcome = "returned"
               /\ Val(calls[c].response).isError
               /\ Mentions(Val(Val(calls[c].response).text), M_UnknownTool)
               /\ Mentions(Val(Val(calls[c].response).text), calls[c].name)
               /\ calls[c].trace = <<>>

\* C2 witness: a call of an unknown tool has finished
C2_Witness ==
    \E c \in DOMAIN calls : Done(c) /\ calls[c].name = "get_quote"

\* C3 as stated: when an oracle failed during get_price, get_balance or
\* get_history, the response handed back carries isError true.
C3_FailureIsErrorFlagged ==
    \A c \in DOMAIN calls :
        (/\ Done(c)
         /\ calls[c].name \in {"get_price", "get_balance", "get_history"}
         /\ calls[c].oracleFailed)
            => Val(calls[c].response).isError

\* the request executeSwap was called with failed validation, has no usable
\* credential, or an oracle failed during the call
SwapFailureOccurred(call) ==
    LET validation == validateSwapRequest(Val(call.request))
    IN \/ validation.kind = "throw"
       \/ ~validation.isValid
       \/ resolveKeypair(Val(call.request)).kind = "throw"
       \/ call.oracleFailed

\* C4: executeSwap never throws; whenever validation, credential resolution,
\* the ledger or the quote API failed, it has returned a SwapResult with
\* success false and the failure message in error.
C4_ExecuteSwapNeverThrows ==
    \A c \in DOMAIN calls :
        calls[c].swap # U
            => /\ Val(calls[c].swap).kind = "return"
               /\ SwapFailureOccurred(calls[c])
                    => /\ ~Val(calls[c].swap).value.success
                       /\ Val(calls[c].swap).value.error # U
                       /\ Val(Val(calls[c].swap).value.error) # <<>>

\* C4 witness: executeSwap has ended after an oracle failed
C4_Witness ==
    \E c \in DOMAIN calls : calls[c].swap # U /\ calls[c].oracleFailed

\* the trustline of symbol was seen, or symbol is the native token
TrustlineSeen(symbol, seen) == symbol = "XLM" \/ seen = S(TRUE)

\* C5: executeSwap returns success true only if the request passed
\* validation, the account was found, the trustlines of the non-native tokens
\* were found, the balance read was >= amount and the quote API answered;
\* when the balance read is below amount it returns success false with an
\* error mentioning insufficient balance, and does not throw.
C5_SuccessOnlyAfterChecks ==
    \A c \in DOMAIN calls :
        calls[c].swap # U
            => LET call == calls[c]
                   request == Val(call.request)
                   swap == Val(call.swap)
               IN /\ swap.kind = "return"
                  /\ swap.value.success
                       => /\ validateSwapRequest(request).kind = "return"
                          /\ validateSwapRequest(request).isValid
                          /\ call.obs.exists = S(TRUE)
                          /\ TrustlineSeen(Val(request.fromToken), call.obs.fromTrustline)
                          /\ TrustlineSeen(Val(request.toToken), call.obs.toTrustline)
                          /\ call.obs.balance # U
                          /\ Val(call.obs.balance) >= Val(request.amount)
                          /\ call.obs.quote # U
                  /\ (call.obs.balance # U /\ Val(call.obs.balance) < Val(request.amount))
                       => /\ ~swap.value.success
                          /\ Mentions(Val(swap.value.error), M_Insufficient)

\* C5 witness: executeSwap has read a balance below the amount and has ended
C5_Witness ==
    \E c \in DOMAIN calls :
        /\ calls[c].swap # U
        /\ calls[c].obs.balance # U
        /\ Val(calls[c].obs.balance) < Val(Val(calls[c].request).amount)
        /\ ~calls[c].oracleFailed

\* the slippage the caller supplied lies outside [0.1, maxSlippage]
SuppliedSlippageOutOfRange(args) ==
    Lt(args.slippage, MinSlippage) \/ Gt(args.slippage, maxSlippage)

\* C7 as stated, at the tool boundary: for every slippage the caller supplied
\* to swap_tokens outside [0.1, maxSlippage], 0 included, the validation of the
\* request built from the call returns valid false.
C7_SuppliedSlippageRejected ==
    \A c \in DOMAIN calls :
        (/\ calls[c].name = "swap_tokens"
         /\ calls[c].request # U
         /\ SuppliedSlippageOutOfRange(Val(calls[c].args))
         /\ validateSwapRequest(Val(calls[c].request)).kind = "return")
            => ~validateSwapRequest(Val(calls[c].request)).isValid

-----------------------------------------------------------------------------
(* Claims about validateSwapRequest, checked under SpecValidate *)

AmountOutOfRange(request) == Lt(request.amount, minAmount) \/ Gt(request.amount, maxAmount)

\* C6 as stated: for every amount outside [minAmount, maxAmount], validate
\* returns valid false with an error mentioning the bound that was violated.
C6_AmountBoundReported ==
    (vres # Pending /\ AmountOutOfRange(vreq))
        => /\ vres.kind = "return"
           /\ ~vres.isValid
           /\ Lt(vreq.amount, minAmount) => Mentions(vres.errors, E_AmountMin)
           /\ Gt(vreq.amount, maxAmount) => Mentions(vres.errors, E_AmountMax)

\* C8 as stated: validate runs every check and returns one result: each
\* violated rule has its error in the list, valid is true exactly when the
\* list is empty, and the warnings do not change valid.
C8_EveryCheckReported ==
    vres # Pending
        => /\ vres.kind = "return"
           /\ vres.isValid = (vres.errors = <<>>)
           /\ (FalsyString(vreq.fromToken) \/ FalsyString(vreq.toToken))
                 <=> Mentions(vres.errors, E_Required)
           /\ (vreq.fromToken = vreq.toToken) <=> Mentions(vres.errors, E_SameToken)
           /\ AmountOutOfRange(vreq)
                 <=> (Mentions(vres.errors, E_AmountMin) \/ Mentions(vres.errors, E_AmountMax))
           /\ (Lt(vreq.slippage, MinSlippage) \/ Gt(vreq.slippage, maxSlippage))
                 <=> Mentions(vres.errors, E_Slippage)

-----------------------------------------------------------------------------
(* Claims about the price cache, checked under SpecCache *)

Distinct(s) == Cardinality(SeqToSet(s)) = Len(s)

HitsAfterPut ==
    lastPut # U =>
        getCachedPrice(priceCache, Val(lastPut).key, now).value = S(Val(lastPut).price)

\* C9 as stated: a get of key k right after put(k, p) returns p, and a get of
\* k once CACHE_TTL has elapsed since the last put of k (now >= put time +
\* CACHE_TTL) is a miss.
C9_RoundTripAsStated ==
    /\ HitsAfterPut
    /\ \A k \in HarnessKeys :
          (putLog[k] # U /\ now >= Val(putLog[k]) + CACHE_TTL)
              => getCachedPrice(priceCache, k, now).value = U

\* C9 amended: a get of key k right after put(k, p) returns p, and a get of k
\* once MORE than CACHE_TTL has elapsed since the last put of k (now > put
\* time + CACHE_TTL) is a miss; at exactly put time + CACHE_TTL the entry is
\* still served.
C9_RoundTrip ==
    /\ HitsAfterPut
    /\ \A k \in HarnessKeys :
          (putLog[k] # U /\ now > Val(putLog[k]) + CACHE_TTL)
              => getCachedPrice(priceCache, k, now).value = U

\* C9 witness: an entry is still held although more than CACHE_TTL has passed
\* since its put, so the miss comes from the expiry test
C9_Witness ==
    \E k \in HarnessKeys :
        /\ putLog[k] # U
        /\ now > Val(putLog[k]) + CACHE_TTL
        /\ CacheIndex(priceCache, k) # 0

\* C10: the cache never holds more than MAX_CACHE_SIZE entries, and after
\* MAX_CACHE_SIZE + 1 distinct keys were put into an empty cache it holds
\* exactly MAX_CACHE_SIZE entries: all of those keys but the first one put.
C10_Capacity ==
    /\ Len(priceCache) <= MAX_CACHE_SIZE
    /\ (putRun.valid /\ Len(putRun.keys) = MAX_CACHE_SIZE + 1 /\ Distinct(putRun.keys))
          => /\ Len(priceCache) = MAX_CACHE_SIZE
             /\ CacheKeys(priceCache) = SeqToSet(putRun.keys) \ {putRun.keys[1]}

\* C10 witness: MAX_CACHE_SIZE + 1 distinct keys were put into an empty cache
C10_Witness ==
    putRun.valid /\ Len(putRun.keys) = MAX_CACHE_SIZE + 1 /\ Distinct(putRun.keys)

\* the entry the cache holds for key, as a set: empty when it holds none
EntriesOf(cache, key) == {cache[i] : i \in {j \in 1..Len(cache) : cache[j].key = key}}

\* the entries of cache in order, without those of key
WithoutKey(cache, key) == SelectSeq(cache, LAMBDA e : e.key # key)

\* C11: get(key) is a miss exactly when the cache holds no entry for key or
\* now > entry.expiresAt; a get that finds an expired entry leaves the cache
\* without that entry and with every other entry as it was, and any other
\* get leaves the cache as it was.
C11_MissAndEagerEviction ==
    \A k \in HarnessKeys :
        LET r == getCachedPrice(priceCache, k, now)
            held == EntriesOf(priceCache, k)
            expired == \E e \in held : now > e.expiresAt
        IN /\ (r.value = U) <=> (held = {} \/ expired)
           /\ expired => r.cache = WithoutKey(priceCache, k)
           /\ ~expired => r.cache = priceCache

\* C11 witness: the cache holds an expired entry next to a live one
C11_Witness ==
    \E k1, k2 \in HarnessKeys :
        /\ \E e \in EntriesOf(priceCache, k1) : now > e.expiresAt
        /\ \E e \in EntriesOf(priceCache, k2) : ~(now > e.expiresAt)

\* the entries of cache, as a set
Held(cache) == {cache[i] : i \in 1..Len(cache)}

\* the entries a put of key took out of before to make room: those of other
\* keys that after no longer holds, or the put key's own old entry when no
\* other entry went
EvictedBy(before, after, key) ==
    LET others == {e \in Held(before) : e.key # key /\ e.key \notin CacheKeys(after)}
    IN IF others # {} THEN others ELSE EntriesOf(before, key)

\* C22: a put made while the cache holds MAX_CACHE_SIZE entries, of a new key
\* or of a held one, evicts exactly one entry, and no entry held at that
\* moment was inserted (timestamp) earlier than the evicted one.
C22_EvictsEarliestInserted ==
    Len(priceCache) >= MAX_CACHE_SIZE =>
        \A k \in HarnessKeys, p \in HarnessPrices :
            LET evicted == EvictedBy(priceCache, setCachedPrice(priceCache, k, p, now), k)
            IN /\ Cardinality(evicted) = 1
               /\ \A e \in evicted, h \in Held(priceCache) : e.timestamp <= h.timestamp

\* C24: a get that hits leaves the cache as it was, order of the entries
\* included; the entry it returned is still the one its put stored, with the
\* expiry of that put (put time + CACHE_TTL), so reads neither postpone its
\* expiry nor move it in the order of eviction.
C24_HitLeavesCacheUnchanged ==
    /\ \A k \in HarnessKeys :
          LET r == getCachedPrice(priceCache, k, now)
          IN r.value # U => r.cache = priceCache
    /\ lastGet # U =>
          LET k == Val(lastGet).key
              i == CacheIndex(priceCache, k)
          IN /\ i # 0
             /\ priceCache[i].price = Val(lastGet).price
             /\ priceCache[i].timestamp = Val(putLog[k])
             /\ priceCache[i].expiresAt = Val(putLog[k]) + CACHE_TTL

\* C24 witness: the entry just read, some time after its put, is the first of
\* a full cache: the next put evicts it although it was the last one read
C24_Witness ==
    /\ lastGet # U
    /\ Len(priceCache) = MAX_CACHE_SIZE
    /\ priceCache[1].key = Val(lastGet).key
    /\ now > priceCache[1].timestamp
    /\ \E j \in 2..Len(priceCache) : priceCache[j].timestamp > priceCache[1].timestamp

\* C25: cleanupExpiredCache removes the entries with now > expiresAt and no
\* other: what remains is unexpired, and every entry that was unexpired is
\* still held, with its price and expiry, in the order it had.
C25_SweepRemovesExactlyExpired ==
    LET after == cleanupExpiredCache(priceCache, now)
    IN /\ \A e \in Held(after) : ~(now > e.expiresAt)
       /\ \A e \in Held(priceCache) :
             IF now > e.expiresAt THEN e.key \notin CacheKeys(after)
             ELSE e \in Held(after)
       /\ Held(after) \subseteq Held(priceCache)
       /\ Len(after) = Cardinality(CacheKeys(after))
       /\ \A i, j \in 1..Len(after) :
             i < j => CacheIndex(priceCache, after[i].key) < CacheIndex(priceCache, after[j].key)

\* C25 witness: an expired entry stands between two live ones
C25_Witness ==
    /\ Len(priceCache) = 3
    /\ ~(now > priceCache[1].expiresAt)
    /\ now > priceCache[2].expiresAt
    /\ ~(now > priceCache[3].expiresAt)
    /\ now = priceCache[1].expiresAt

-----------------------------------------------------------------------------
(* Claims about the wallet sessions, checked under SpecWallet *)

\* C12 as stated: a refreshWallet(publicKey) that has ended for a key that was
\* not in the session map when it was called, or that the ledger answered
\* with a 404, has thrown an account-not-found error, and a key that was not in
\* the session map is still not in it.
C12_RefreshFailsUnlessConnected ==
    (/\ walletCall.pc = "done"
     /\ walletCall.op = "refresh"
     /\ ~walletCall.wasConnected \/ walletCall.notFound)
        => /\ Val(walletCall.result).kind = "throw"
           /\ Val(walletCall.result).error.name = "StellarAccountNotFoundError"
           /\ ~walletCall.wasConnected => connectedWallets[walletCall.publicKey] = U

\* C13: disconnectWallet on a key the session map does not hold leaves the
\* map as it is; a second disconnectWallet of the same key changes nothing
\* more; the entries of all other keys stay as they were.  This holds of the
\* function on every reachable map and of the disconnect that last happened.
C13_DisconnectIdempotent ==
    /\ \A publicKey \in SessionKeys :
          LET once == disconnectWallet(connectedWallets, publicKey)
          IN /\ connectedWallets[publicKey] = U => once = connectedWallets
             /\ once[publicKey] = U
             /\ disconnectWallet(once, publicKey) = once
             /\ \A other \in SessionKeys \ {publicKey} : once[other] = connectedWallets[other]
    /\ lastDisconnect # U
          => LET d == Val(lastDisconnect)
             IN /\ ~d.wasConnected => connectedWallets = d.before
                /\ connectedWallets[d.publicKey] = U
                /\ \A other \in SessionKeys \ {d.publicKey} :
                      connectedWallets[other] = d.before[other]

\* C13 witness: a key was disconnected while another key was connected, and
\* the same key was then disconnected again
C13_Witness ==
    /\ lastDisconnect # U
    /\ ~Val(lastDisconnect).wasConnected
    /\ \E other \in SessionKeys : connectedWallets[other] # U

-----------------------------------------------------------------------------
(* Claims about resource reads, checked under SpecResource *)

\* C14: a read whose URI is none of the four resource URIs ends with an
\* unknown-resource error thrown out of the read handler, after a
\* 'Request failed' event, and without any component having been asked.
C14_UnknownResourceThrows ==
    \A r \in DOMAIN reads :
        (reads[r].pc = "done" /\ reads[r].uri \notin KnownUris) =>
            /\ reads[r].outcome = "threw"
            /\ reads[r].response = U
            /\ reads[r].error = S(<<M_UnknownResource, reads[r].uri>>)
            /\ reads[r].trace = <<>>
            /\ ~reads[r].oracleFailed
            /\ Len(EventsOf(requestLog, ReadSlot(r))) = 2
            /\ EventsOf(requestLog, ReadSlot(r))[2].message = "Request failed"

C14_Witness ==
    \E r \in DOMAIN reads :
        /\ reads[r].pc = "done"
        /\ reads[r].uri = "soroswap://unknown"
        /\ reads[r].outcome = "threw"

\* C15: when the service behind one of the four resource URIs has failed, the
\* read ends with an exception thrown out of the read handler and not with a
\* contents envelope.
C15_KnownResourceFailureThrows ==
    \A r \in DOMAIN reads :
        (reads[r].pc = "done" /\ reads[r].uri \in KnownUris /\ reads[r].oracleFailed) =>
            /\ reads[r].outcome = "threw"
            /\ reads[r].response = U

-----------------------------------------------------------------------------
(* Claims about the amounts of a swap, checked under Spec *)

\* C16: a successful executeSwap reports the amounts of the quote it obtained:
\* toAmount and actualReceived are the quote's toAmount, fee is the quote's
\* fee, and fromAmount is the amount the caller asked to swap.
C16_ResultEqualsQuote ==
    \A c \in DOMAIN calls :
        (/\ calls[c].name = "swap_tokens"
         /\ calls[c].swap # U
         /\ Val(calls[c].swap).value.success) =>
            LET result == Val(calls[c].swap).value
                quote == Val(calls[c].obs.quote)
            IN /\ calls[c].obs.quote # U
               /\ result.toAmount = parseFloat(quote.toAmount)
               /\ result.actualReceived = S(parseFloat(quote.toAmount))
               /\ result.fee = parseFloat(quote.fee)
               /\ result.fromAmount = Val(calls[c].args).amount

\* the scenario of the specification: XLM->USDC, amount 100, quote of
\* toAmount 20 and fee 0.1
C16_Witness ==
    \E c \in DOMAIN calls :
        /\ calls[c].name = "swap_tokens"
        /\ calls[c].swap # U
        /\ Val(calls[c].swap).value.success
        /\ Val(calls[c].args).fromToken = S("XLM")
        /\ Val(calls[c].args).toToken = S("USDC")
        /\ Val(calls[c].args).amount = S(10000)
        /\ Val(calls[c].swap).value.toAmount = 2000
        /\ Val(calls[c].swap).value.fee = 10

\* the limit of the call in slot c has been handed to the ledger
LimitHanded(c) ==
    /\ calls[c].name = "get_history"
    /\ calls[c].limit # U
    /\ \E i \in DOMAIN calls[c].trace : calls[c].trace[i] = "ledger.getTransactionHistory"

\* C17: the limit get_history hands to the ledger is 10 when the caller gave
\* none, and is at most 100 whatever limit the caller gave.
C17_HistoryLimitCapped ==
    \A c \in DOMAIN calls :
        LimitHanded(c) =>
            /\ Val(calls[c].args).limit = U => Val(calls[c].limit) = DefaultLimit
            /\ Val(calls[c].limit) <= MaxHistoryLimit

-----------------------------------------------------------------------------
(* Claims about the startup, checked under SpecStartup *)

\* a secret of the environment is absent or shorter than 64 characters
ShortSecret(secret) == secret = U \/ Val(secret) < ProductionSecretLength

\* C18: in production, when either secret is absent or shorter than 64
\* characters, the process never gets past the validation of its
\* configuration: the server is neither constructed nor started, the short
\* secret is never a mere warning, and once the validation has run the process
\* has exited with a non-zero code.
C18_ShortSecretFatalInProduction ==
    (/\ process.env.NODE_ENV = "production"
     /\ ShortSecret(process.env.JWT_SECRET) \/ ShortSecret(process.env.ENCRYPTION_KEY)) =>
        /\ process.pc \in {"load", "main", "exited"}
        /\ ~process.constructed
        /\ ~process.started
        /\ process.pc = "exited" =>
              /\ process.exitCode # U
              /\ Val(process.exitCode) # 0
              /\ process.exitedIn \in {"validateEnv", "validateConfig"}
        /\ \A i \in DOMAIN process.warnings :
              process.warnings[i] \notin {M_JwtSecretShort, M_EncryptionKeyShort}

\* a 63 character JWT secret passes EnvSchema and is fatal in validateConfig
C18_Witness ==
    /\ process.env.NODE_ENV = "production"
    /\ process.env.JWT_SECRET = S(63)
    /\ process.env.ENCRYPTION_KEY = S(64)
    /\ process.pc = "exited"
    /\ process.exitedIn = "validateConfig"
    /\ process.exitCode = S(1)

-----------------------------------------------------------------------------
(* Claims about concurrent calls, checked under SpecConcurrent *)

\* the call in slot c has asked the oracle op
Asked(c, op) == \E i \in DOMAIN calls[c].trace : calls[c].trace[i] = op

\* the events of the tool calls in the log, in order
CallEvents == SelectSeq(requestLog, LAMBDA e : e.slot[1] = "call")

\* C19: nothing serialises swaps: whatever another call is doing, the next
\* oracle step of a swap can be taken, a swap whose balance reply covers its
\* own amount passes the balance check, and it succeeds once its quote has
\* arrived. (The witness has two swaps of 100 XLM in flight together, both
\* checked against the same balance of 150 XLM, both successful.)
C19_SwapsNotSerialised ==
    \A c \in DOMAIN calls :
        /\ calls[c].pc = "accountExists" => ENABLED SwapAccountExists(c, TRUE)
        /\ calls[c].pc = "fromTrustline" => ENABLED SwapFromTrustline(c, TRUE)
        /\ calls[c].pc = "toTrustline" => ENABLED SwapToTrustline(c, TRUE)
        /\ calls[c].pc = "balance" => ENABLED SwapBalance(c, TRUE)
        /\ calls[c].pc = "quote" => \A reply \in Quotes : ENABLED SwapQuote(c, S(reply))
        /\ (/\ calls[c].name = "swap_tokens"
            /\ calls[c].obs.balance # U
            /\ Val(calls[c].obs.balance) >= Val(Val(calls[c].request).amount)) =>
               \/ calls[c].pc = "quote"
               \/ /\ calls[c].pc = "done"
                  /\ Asked(c, "quote.getQuote")
                  /\ calls[c].obs.quote # U => Val(calls[c].swap).value.success

C19_Witness ==
    /\ \A c \in {1, 2} :
          /\ calls[c].name = "swap_tokens"
          /\ calls[c].pc = "done"
          /\ Val(calls[c].swap).value.success
          /\ ~Val(calls[c].response).isError
          /\ PublicKeyOf(calls[c]) = S("GA")
          /\ Val(calls[c].request).fromToken = S("XLM")
          /\ calls[c].obs.balance = S(ledger.xlm)
    /\ Val(Val(calls[1].request).amount) + Val(Val(calls[2].request).amount) > ledger.xlm
    /\ Len(CallEvents) = 4
    /\ CallEvents[1].message = "Request started"
    /\ CallEvents[2].message = "Request started"

\* the events of a handler in slot are those of one request: none before it
\* began, 'Request started' alone while it runs, and once it has ended
\* 'Request started' followed by one 'Request completed' (succeeded) or
\* 'Request failed', with the identifier and the method of the first
MatchedEvents(slot, method, pc, succeeded) ==
    LET events == EventsOf(requestLog, slot)
    IN /\ pc = "idle" => events = <<>>
       /\ pc # "idle" =>
             /\ Len(events) >= 1
             /\ events[1].message = "Request started"
             /\ events[1].method = method
             /\ events[1].requestId \in RequestIds
       /\ pc \notin {"idle", "done"} => Len(events) = 1
       /\ pc = "done" =>
             /\ Len(events) = 2
             /\ events[2].message = IF succeeded THEN "Request completed" ELSE "Request failed"
             /\ events[2].method = method
             /\ events[2].requestId = events[1].requestId

\* C20: every tool call and every resource read logs exactly one 'Request
\* started' and, after it, exactly one 'Request completed' or 'Request
\* failed' with the same request identifier, however the events of the calls
\* in flight together are interleaved in the log.
C20_RequestEventsMatched ==
    /\ \A c \in DOMAIN calls :
          MatchedEvents(CallSlot(c), "call_tool", calls[c].pc,
                        calls[c].response # U /\ ~Val(calls[c].response).isError)
    /\ \A r \in DOMAIN reads :
          MatchedEvents(ReadSlot(r), "read_resource", reads[r].pc,
                        reads[r].outcome = "returned")
    /\ \A i \in DOMAIN requestLog :
          \/ /\ requestLog[i].slot[1] = "call"
             /\ requestLog[i].slot[2] \in DOMAIN calls
          \/ /\ requestLog[i].slot[1] = "read"
             /\ requestLog[i].slot[2] \in DOMAIN reads

\* two calls with different identifiers, the second begun and ended within the
\* first, and a resource read ended as well
C20_Witness ==
    /\ Len(CallEvents) = 4
    /\ CallEvents[1].slot = CallSlot(1)
    /\ CallEvents[2].slot = CallSlot(2)
    /\ CallEvents[3].slot = CallSlot(2)
    /\ CallEvents[4].slot = CallSlot(1)
    /\ CallEvents[1].requestId # CallEvents[2].requestId
    /\ CallEvents[3].message = "Request failed"
    /\ CallEvents[4].message = "Request completed"
    /\ reads[1].pc = "done"
    /\ Len(requestLog) = 6

-----------------------------------------------------------------------------
(* Claims about the phases of executeSwap, checked under Spec *)

LedgerOps == {"ledger.accountExists", "ledger.getBalances"}

\* in trace the quote oracle is asked before the ledger oracle is
QuoteFirst(trace) ==
    \A j \in DOMAIN trace :
        trace[j] \in LedgerOps => \E i \in 1..(j - 1) : trace[i] = "quote.getQuote"

\* C21: executeSwap asks the quote oracle before its pre-checks ask the ledger
\* oracle, a failed quote ends the invocation without any pre-check, and a
\* request that fails validation asks neither oracle.
C21_QuoteBeforePreChecks ==
    \A c \in DOMAIN calls :
        calls[c].name = "swap_tokens" =>
            /\ QuoteFirst(calls[c].trace)
            /\ (calls[c].swap # U /\ Asked(c, "quote.getQuote") /\ calls[c].obs.quote = U) =>
                  \A j \in DOMAIN calls[c].trace : calls[c].trace[j] \notin LedgerOps
            /\ (/\ calls[c].swap # U
                /\ Val(calls[c].swap).value.error # U
                /\ Mentions(Val(Val(calls[c].swap).value.error), M_ValidationFailed)) =>
                  \A j \in DOMAIN calls[c].trace :
                      calls[c].trace[j] \notin LedgerOps \cup {"quote.getQuote"}

-----------------------------------------------------------------------------
(* Claims about the order of the validation errors, checked under SpecValidate *)

\* the place of an error in the stated order of the checks
CheckRank(error) ==
    CASE error \in {E_Required, E_SameToken} -> 1
      [] error = E_AmountPositive -> 2
      [] error \in {E_AmountMin, E_AmountMax} -> 3
      [] error = E_Slippage -> 4
      [] OTHER -> 5

\* C23: the errors validate returns are in the stated order of the checks:
\* token presence and distinctness, amount > 0, amount within [minAmount,
\* maxAmount], slippage within range, supported tokens; so no amount-range
\* error comes after a slippage error.
C23_ErrorsInCheckOrder ==
    (vres # Pending /\ vres.kind = "return") =>
        \A i, j \in DOMAIN vres.errors :
            i < j => CheckRank(vres.errors[i]) <= CheckRank(vres.errors[j])

-----------------------------------------------------------------------------
(* Claims about the shape of a SwapResult, checked under Spec *)

\* C26: a SwapResult of executeSwap with success false has toAmount 0 and an
\* error message, and one with success true has no error and a transaction
\* hash.
C26_SwapResultShape ==
    \A c \in DOMAIN calls :
        (calls[c].swap # U /\ Val(calls[c].swap).kind = "return") =>
            LET result == Val(calls[c].swap).value
            IN IF result.success
               THEN /\ result.error = U
                    /\ result.transactionHash # U
               ELSE /\ result.toAmount = 0
                    /\ result.error # U
                    /\ Val(result.error) # <<>>

\* C26 witness: executeSwap has failed at its last oracle call, the quote
C26_Witness ==
    \E c \in DOMAIN calls :
        /\ calls[c].swap # U
        /\ Asked(c, "quote.getQuote")
        /\ calls[c].obs.quote = U
        /\ ~Val(calls[c].swap).value.success
        /\ Val(calls[c].swap).value.toAmount = 0

-----------------------------------------------------------------------------
(* Claims about the stored WalletInfo, checked under SpecWallet *)

\* C27: every WalletInfo in the session map has trustlineCount equal to the
\* number of its balances that are not native, and is stored under its own
\* public key.
C27_WalletInfoConsistent ==
    \A k \in SessionKeys :
        connectedWallets[k] # U =>
            LET info == Val(connectedWallets[k])
            IN /\ info.trustlineCount
                     = Len(SelectSeq(info.balances, LAMBDA b : b.assetType # "native"))
               /\ info.publicKey = k
               /\ info.isConnected

\* C27 witness: a refresh has replaced the WalletInfo of GA, which holds a
\* trustline, while another wallet is connected
C27_Witness ==
    /\ walletCall.op = "refresh"
    /\ walletCall.resolved
    /\ walletCall.publicKey = "GA"
    /\ walletCall.wasConnected
    /\ connectedWallets["GA"] # U
    /\ Val(connectedWallets["GA"]).trustlineCount = 1
    /\ connectedWallets["GB"] # U

-----------------------------------------------------------------------------
(* Claims about concurrent price lookups, checked under SpecPrices *)

\* both slots hold an ended get_price call of the same pair, and each call
\* began before the other ended
Overlapped ==
    /\ \A c \in DOMAIN calls : calls[c].pc = "done" /\ calls[c].name = "get_price"
    /\ calls[1].args = calls[2].args
    /\ Len(CallEvents) = 4
    /\ CallEvents[1].message = "Request started"
    /\ CallEvents[2].message = "Request started"

\* the get_price call in slot c missed the cache and awaits the price oracle
AwaitingOracle(c) ==
    /\ calls[c].name = "get_price"
    /\ calls[c].pc \in {"priceFrom", "priceTo"}

\* the cache key of the pair the call in slot c asked for
PairKey(c) ==
    pairCacheKey(Val(calls[c].request).fromToken, Val(calls[c].request).toToken)

\* the call in slot c handed back a price, not an error
GotPrice(c) == Val(Val(calls[c].response).json).error = U

\* the price the call in slot c handed back
PriceReturned(c) == Val(Val(Val(calls[c].response).json).price)

\* C28: price lookups in flight are not de-duplicated: while one get_price
\* call awaits the price oracle and the cache holds no live entry of its pair,
\* a second call of the same pair misses the cache and awaits the oracle too;
\* the cache never holds two entries of one key, and when two overlapping
\* calls of one pair both got a price the entry of the pair holds the price
\* of the call that ended, and so stored, last.
C28_LookupsNotDeduplicated ==
    /\ Len(priceCache) = Cardinality(CacheKeys(priceCache))
    /\ \A c \in DOMAIN calls, d \in DOMAIN calls :
          (/\ AwaitingOracle(c)
           /\ calls[d].pc = "idle"
           /\ getCachedPrice(priceCache, PairKey(c), now).value = U) =>
              /\ ENABLED (CallGetPrice(d, calls[c].args) /\ AwaitingOracle(d)')
              /\ ~ENABLED (CallGetPrice(d, calls[c].args) /\ ~AwaitingOracle(d)')
    /\ (Overlapped /\ \A c \in DOMAIN calls : GotPrice(c)) =>
          LET last == CallEvents[4].slot[2]
          IN /\ CacheIndex(priceCache, PairKey(last)) # 0
             /\ priceCache[CacheIndex(priceCache, PairKey(last))].price = PriceReturned(last)

\* C28 witness: two overlapping lookups of XLM/USDC were given different
\* prices by the oracle; the cache holds the one of the call that ended last
C28_Witness ==
    /\ Overlapped
    /\ \A c \in DOMAIN calls :
          /\ Asked(c, "price.getTokenPrice")
          /\ GotPrice(c)
    /\ PriceReturned(1) # PriceReturned(2)
    /\ CallEvents[4].slot = CallSlot(1)
    /\ priceCache[1].price = PriceReturned(1)

-----------------------------------------------------------------------------
(* Claims about estimate_swap, checked under Spec *)

\* the estimate_swap call in slot c carries a request with an amount that
\* validateSwapRequest reports as invalid
InvalidEstimate(c) ==
    /\ calls[c].name = "estimate_swap"
    /\ ~IsUndefined(calls[c].request)
    /\ ~IsUndefined(Val(calls[c].request).amount)
    /\ validateSwapRequest(Val(calls[c].request)).kind = "return"
    /\ ~validateSwapRequest(Val(calls[c].request)).isValid

\* C29: estimateSwap discards the outcome of validation: an estimate_swap
\* call whose request validateSwapRequest reports as invalid (same token,
\* amount out of range, unsupported token, slippage out of range) still asks
\* the quote oracle, and what it hands back is the oracle's quote, or the
\* oracle's failure, never a validation error.
C29_EstimateIgnoresValidation ==
    \A c \in DOMAIN calls :
        InvalidEstimate(c) =>
            /\ calls[c].pc \in {"estimateQuote", "done"}
            /\ calls[c].pc = "done" =>
                  LET body == Val(Val(calls[c].response).json)
                      quote == calls[c].obs.quote
                  IN /\ Asked(c, "quote.getQuote")
                     /\ ~Val(calls[c].response).isError
                     /\ IF IsUndefined(quote)
                        THEN body.error = S(<<M_EstimationFailed, M_Network>>)
                        ELSE /\ body.error = U
                             /\ body.estimate =
                                   S([fromAmount |-> parseFloat(Val(quote).fromAmount),
                                      toAmount |-> parseFloat(Val(quote).toAmount),
                                      minimumReceived |-> parseFloat(Val(quote).minimumReceived),
                                      fee |-> parseFloat(Val(quote).fee)])

\* C29 witness: an estimate of BTC to USDC, which validation reports as an
\* unsupported token, ended with the quote of the oracle
C29_Witness ==
    \E c \in DOMAIN calls :
        /\ InvalidEstimate(c)
        /\ calls[c].pc = "done"
        /\ Val(calls[c].request).fromToken = S("BTC")
        /\ validateSwapRequest(Val(calls[c].request)).errors = <<E_UnsupportedFrom>>
        /\ ~IsUndefined(calls[c].obs.quote)
        /\ Val(Val(calls[c].response).json).error = U

-----------------------------------------------------------------------------
(* Claims about the server lifecycle, checked under SpecLifecycle *)

\* the slot of the last lifecycle step, as that step left it
LastControl == control[lastStep.slot]

\* C30: isRunning becomes true only in the step in which server.connect
\* resolves and false only in the step in which server.close resolves; start
\* on a running server and stop on a stopped server do nothing, a start or
\* stop that throws leaves isRunning as it was, and a stop of a running
\* server leaves isRunning true while it awaits close, so that a second
\* shutdown arriving meanwhile invokes close as well.
C30_LifecycleFlag ==
    /\ lastStep.before # isRunning =>
          /\ lastStep.kind = (IF isRunning THEN "connect" ELSE "close")
          /\ LastControl.outcome = "resolved"
    /\ (lastStep.kind = "start" /\ lastStep.before) =>
          /\ isRunning
          /\ LastControl.pc = "done"
          /\ LastControl.outcome = "noop"
    /\ (lastStep.kind = "stop" /\ ~lastStep.before) =>
          /\ ~isRunning
          /\ LastControl.pc \in {"done", "closeLogger"}
          /\ LastControl.outcome = "noop"
    /\ (lastStep.kind \in {"connect", "close"} /\ LastControl.outcome = "rejected") =>
          isRunning = lastStep.before
    /\ (lastStep.kind = "stop" /\ lastStep.before) =>
          /\ isRunning
          /\ LastControl.pc = "close"
    /\ \A o \in ControlSlots, p \in ControlSlots :
          (/\ control[o].pc = "close"
           /\ control[p].pc = "idle"
           /\ isRunning
           /\ process.pc = "running") =>
              ENABLED (Shutdown(p) /\ control'[p].pc = "close")

\* C30 witness: two termination signals arrived together; both shutdowns
\* have invoked server.close and await it, and isRunning is still true
C30_Witness ==
    /\ isRunning
    /\ \A o \in ControlSlots :
          /\ control[o].op = "shutdown"
          /\ control[o].pc = "close"

=============================================================================
